---- MODULE Spec2Model ----
(***************************************************************************)
(* Market discovery, classification and metrics of the Pendle scripts.     *)
(*                                                                         *)
(* Spec        the chain readers findValidNonExpiredMarkets and            *)
(*             getMarketDetails, one step per awaited chain read, with     *)
(*             the chain head free to advance between any two reads.       *)
(* SpecMain        main(): listing and printing the markets found.         *)
(* SpecClassifier  the stablecoin classifier over bounded symbols.         *)
(* SpecMetrics     the yield, progress, reward and liquidity figures.      *)
(* SpecBatch       fetchAllMarketData over data/active-markets.json.       *)
(* SpecOracle      the PT discount oracle of TokenHelper.sol.              *)
(* SpecCompare     compare-market-data's main.                             *)
(* SpecProbe       getNumberOfMarkets, under the fairness that every       *)
(*                 awaited call settles.                                   *)
(***************************************************************************)
EXTENDS Integers, Sequences, FiniteSets, TLC

(***************************************************************************)
(* Bounds of the model.                                                    *)
(***************************************************************************)
\* The chain head advances at most this many blocks during one call.
MaxHead == 1
\* The creation-event query answers with at most this many events.
MaxEvents == 2
\* Number of the chain's latest block when a call starts.
FirstBlock == 5
\* Timestamp of block 0, in seconds.
GenesisTime == 1000
\* The SY token answers getRewardTokens() with at most this many tokens.
MaxRewardTokens == 2
\* main(): one findValidNonExpiredMarkets call returns at most this many
\* records, with expiries among the next MaxFuture blocks' timestamps.
MaxListed == 2
MaxFuture == 3
\* formatMarketData: the pool balances range over -2..MaxAmount wei.
MaxAmount == 11
\* fetchAllMarketData: data/active-markets.json lists at most this many markets.
MaxBatch == 3
\* getNumberOfMarkets: the factory holds at most this many markets.
MaxFactoryMarkets == 10
\* compare-market-data: each file lists at most MaxCompared markets; an
\* address has AddressDigits hex digits where a real one has 40.
MaxCompared == 2
AddressDigits == 3
\* The oracle is deployed at block.timestamp OracleStart and watched for
\* MaxQuarters quarters of a year.
OracleStart == 1700000000
MaxQuarters == 8

(***************************************************************************)
(* Program constants.                                                      *)
(***************************************************************************)
\* Seconds per block: const blocksPerDay = (24 * 60 * 60) / 12.
BlockTime == 12
\* ethers.formatEther(value) is formatUnits(value, 18).
EtherDecimals == 18
\* uint256 private constant SECONDS_PER_YEAR = 31_536_000;
SECONDS_PER_YEAR == 31536000

(***************************************************************************)
(* The chain, as the scripts see it through the provider.                  *)
(***************************************************************************)
Blocks == FirstBlock..(FirstBlock + MaxHead)

\* block.timestamp of block b; it increases with the block number.
TimestampOf(b) == GenesisTime + BlockTime * b

\* Market addresses.  One market per expiry around the timestamps of Blocks:
\* market 1 expires with block FirstBlock, market 2 with the block after it,
\* and the last market outlives every block of the model.
Markets == 1..(MaxHead + 2)

\* state.expiry of market m: fixed at creation, the same at every block.
ExpiryOf(m) == TimestampOf(FirstBlock + m - 1)

\* market.isExpired() served at block b.
IsExpiredAt(m, b) == ExpiryOf(m) <= TimestampOf(b)

\* market.totalSupply() served at block b: the LP supply moves with every block.
LpSupplyAt(m, b) == m + b

\* market.readState(router) served at block b.  The pool balances and the
\* implied rate move with every block; the rest is fixed at creation.
StateAt(m, b) ==
    [totalPt |-> 1000 * m + b,
     totalSy |-> 2000 * m - b,
     totalLp |-> LpSupplyAt(m, b),
     treasury |-> "treasury",
     scalarRoot |-> 70 + m,
     expiry |-> ExpiryOf(m),
     lnFeeRateRoot |-> 3,
     reserveFeePercent |-> 10,
     lastLnImpliedRate |-> 50 + b]

\* SY.exchangeRate() of market m served at block b.
ExchangeRateAt(m, b) == 100 + b

\* market.readTokens(): the addresses of the SY, PT and YT token.
TokensOf(m) == [SY |-> <<"SY", m>>, PT |-> <<"PT", m>>, YT |-> <<"YT", m>>]

\* market.getRewardTokens().
RewardTokensOf(m) == <<"PENDLE">>

\* Number of the block with the first log of market m.
CreationBlockOf(m) == FirstBlock - m

\* Characters of token symbols are one-character strings.
UnderlyingSymbol(m) ==
    CASE m % 3 = 0 -> <<"U", "S", "D", "C">>
      [] m % 3 = 1 -> <<"s", "t", "E", "T", "H">>
      [] OTHER     -> <<"D", "A", "I">>

\* symbol() of the SY, PT and YT token of market m (immutable token metadata).
SymbolOf(kind, m) ==
    CASE kind = "SY" -> <<"S", "Y", "-">> \o UnderlyingSymbol(m)
      [] kind = "PT" -> <<"P", "T", "-">> \o UnderlyingSymbol(m)
      [] OTHER       -> <<"Y", "T", "-">> \o UnderlyingSymbol(m)

\* A CreateNewMarket log is modelled by its decoded args: <<m>> for market m,
\* <<>> for a log without args.  A decoded address is a non-empty string, so
\* the test `!marketAddress` never holds for a log with args.
EventEntries == {<<>>} \cup {<<m>> : m \in Markets}

RECURSIVE SeqsUpTo(_, _)
SeqsUpTo(S, n) ==
    IF n = 0 THEN {<<>>}
    ELSE LET shorter == SeqsUpTo(S, n - 1)
         IN  shorter \cup {Append(s, x) : s \in shorter, x \in S}

\* SY.getRewardTokens() answers with a list of distinct reward tokens.
RewardTokens == {"rewardA", "rewardB"}

RewardTokenLists ==
    {toks \in SeqsUpTo(RewardTokens, MaxRewardTokens) :
        \A i, j \in 1..Len(toks) : i # j => toks[i] # toks[j]}

\* symbol() of a reward token.
RewardSymbolOf(token) ==
    IF token = "rewardA" THEN <<"P", "E", "N", "D", "L", "E">>
    ELSE <<"U", "S", "U", "A", "L">>

\* The factory emits one CreateNewMarket event per market.
EventLists ==
    {evts \in SeqsUpTo(EventEntries, MaxEvents) :
        \A i, j \in 1..Len(evts) :
            (i # j /\ evts[i] # <<>>) => evts[i] # evts[j]}

(***************************************************************************)
(* State.                                                                  *)
(***************************************************************************)
VARIABLES
    head,             \* number of the chain's latest block
    fn,               \* the function being run
    pc,               \* the await the function is suspended at
    outcome,          \* "running", "returned" or "threw"
    thrownBy,         \* the read whose failure made the function throw
    preludeFailure,   \* the read before the loop that failed, if one did
    currentBlock,     \* findValidNonExpiredMarkets: const currentBlock
    currentTimestamp, \* findValidNonExpiredMarkets: const currentTimestamp
    events,           \* findValidNonExpiredMarkets: const events
    idx,              \* position of the for-loop in events
    local,            \* the try block's consts of the current iteration
    validMarkets,     \* findValidNonExpiredMarkets: const validMarkets
    returned,         \* the value the promise resolved with, once it has
    answers,          \* what the chain answered per market during this call
    perMarketCalls,   \* number of per-market calls issued so far
    marketAddress,    \* getMarketDetails: the marketAddress argument
    block,            \* getMarketDetails: const block
    pending,          \* reads of the awaited Promise.all not yet settled
    details,          \* getMarketDetails: the consts and lets read so far
    script,           \* the script whose main() runs
    mainPc,           \* the await main() is suspended at
    factories,        \* market-interactions: factory versions still to query
    markets,          \* main: markets / stablecoinMarkets / allMarkets
    selected,         \* the array as it was when sort() was called
    displayed,        \* the records printed by the summary, in print order
    saved,            \* the records written by saveMarketsData
    candidate,        \* the MarketInfo at hand for isStablecoinMarket
    classified,       \* the isStablecoinMarket calls made: argument and result
    metric,           \* the formatMarketData helper that was called
    metricArgs,       \* its arguments
    metricValue,      \* the value it returned
    divisions,        \* the divisions it evaluated: dividend and divisor
    batchPc,          \* fetchAllMarketData: the await it is suspended at
    activeMarkets,    \* fetchAllMarketData: activeMarkets.data.markets
    promises,         \* fetchAllMarketData: marketDataPromises, each one's state
    requests,         \* number of axios.get calls issued per listed market
    output,           \* fetchAllMarketData: const output
    oracle,           \* PendleSparkLinearDiscountOracle: its immutables
    blockTimestamp,   \* block.timestamp of the chain the oracle lives on
    roundData,        \* the latest latestRoundData() call and its outcome
    previousRoundData, \* the latestRoundData() call before that one
    onchainData,      \* compare-market-data: onchainData.markets
    apiData,          \* compare-market-data: apiData.data.markets
    comparisonData,   \* compare-market-data: const comparisonData
    factoryMarkets,   \* number of markets the factory holds
    marketIndex,      \* getNumberOfMarkets: let marketIndex
    probes,           \* the allMarkets(index) calls made and how each ended
    numMarkets        \* main: const numMarkets, once getNumberOfMarkets returned

discVars == <<preludeFailure, currentBlock, currentTimestamp, events, idx,
              local, validMarkets, answers, perMarketCalls>>

gmdVars == <<marketAddress, block, pending, details>>

chainVars == <<head, fn, pc, outcome, thrownBy, returned, discVars, gmdVars>>

mainVars == <<script, mainPc, factories, markets, selected, displayed, saved>>

classifierVars == <<candidate, classified>>

metricVars == <<metric, metricArgs, metricValue, divisions>>

batchVars == <<batchPc, activeMarkets, promises, requests, output>>

compareVars == <<onchainData, apiData, comparisonData>>

probeVars == <<factoryMarkets, marketIndex, probes, numMarkets>>

\* The scripts that do not read the chain.
apiVars == <<batchVars, compareVars>>

oracleVars == <<oracle, blockTimestamp, roundData, previousRoundData>>

\* What main() and the chain readers leave alone.
pureVars == <<classifierVars, metricVars, apiVars, oracleVars, probeVars>>

\* What the chain readers leave alone.
offChainVars == <<mainVars, pureVars>>

vars == <<chainVars, mainVars, pureVars>>

NoBlock == 0 - 1
NoResult == <<"no result">>
NoLocal == [sySymbol |-> <<>>, ptSymbol |-> <<>>, ytSymbol |-> <<>>,
            expiry |-> NoBlock]
NoAnswers == [m \in Markets |->
                 [isValid |-> "none", isExpired |-> "none", details |-> "none",
                  expiredAt |-> NoBlock]]

NoState == [n \in {} |-> n]
NoDetails ==
    [tokens |-> [n \in {} |-> n], state |-> NoState, rewardTokens |-> <<>>,
     sySymbol |-> <<>>, ptSymbol |-> <<>>, ytSymbol |-> <<>>,
     syExchangeRate |-> NoBlock, creationBlock |-> NoBlock,
     creationTimestamp |-> NoBlock, syRewardTokens |-> <<>>,
     syRewardRates |-> <<>>, syRewardSymbols |-> <<>>]

\* No oracle deployed; no latestRoundData() call made.
NotDeployed == [maturity |-> NoBlock, baseDiscountPerYear |-> <<>>]
NoRoundData == [timestamp |-> NoBlock, reverted |-> FALSE, answer |-> <<>>]

\* const comparisonData before main has run.
NoComparison ==
    [summary |-> [totalOnchain |-> NoBlock, totalApi |-> NoBlock,
                  inBoth |-> NoBlock, onlyOnchain |-> NoBlock,
                  onlyApi |-> NoBlock],
     details |-> [marketsOnlyInOnchain |-> <<>>, marketsOnlyInApi |-> <<>>],
     threw |-> FALSE]

\* const output before it is built: no market list, no count.
NoOutput == [totalMarkets |-> NoBlock, markets |-> <<>>]

\* Nothing selected, printed or written yet: a list holding one entry that is
\* no market record.
NotYet == <<[address |-> 0]>>

\* No main() is running.
MainIdle ==
    /\ script = "none"
    /\ mainPc = "done"
    /\ factories = <<>>
    /\ markets = <<>>
    /\ selected = NotYet
    /\ displayed = NotYet
    /\ saved = NotYet

\* isStablecoinMarket is not being exercised.
ClassifierIdle ==
    /\ candidate = [sySymbol |-> <<>>, ptSymbol |-> <<>>, ytSymbol |-> <<>>]
    /\ classified = <<>>

\* No formatMarketData helper is being exercised.
MetricsIdle ==
    /\ metric = "none"
    /\ metricArgs = <<>>
    /\ metricValue = <<>>
    /\ divisions = <<>>

\* fetchAllMarketData is not running.
BatchIdle ==
    /\ batchPc = "idle"
    /\ activeMarkets = <<>>
    /\ promises = <<>>
    /\ requests = <<>>
    /\ output = NoOutput

\* compare-market-data is not running.
CompareIdle ==
    /\ onchainData = <<>>
    /\ apiData = <<>>
    /\ comparisonData = NoComparison

\* No script of the API side is running.
ApiIdle == BatchIdle /\ CompareIdle

\* getNumberOfMarkets is not running.
ProbeIdle ==
    /\ factoryMarkets = 0
    /\ marketIndex = 0
    /\ probes = <<>>
    /\ numMarkets = NoBlock

\* No oracle is deployed and none is called.
OracleIdle ==
    /\ oracle = NotDeployed
    /\ blockTimestamp = OracleStart
    /\ roundData = NoRoundData
    /\ previousRoundData = NoRoundData

Init ==
    /\ MainIdle
    /\ ClassifierIdle
    /\ MetricsIdle
    /\ ApiIdle
    /\ OracleIdle
    /\ ProbeIdle
    /\ head = FirstBlock
    /\ \/ /\ fn = "findValidNonExpiredMarkets"
          /\ pc = "getBlockNumber"
          /\ marketAddress = 0
       \/ /\ fn = "getMarketDetails"
          /\ pc = "getLatestBlock"
          /\ marketAddress \in Markets
    /\ block = [number |-> NoBlock, timestamp |-> NoBlock]
    /\ pending = {}
    /\ details = NoDetails
    /\ outcome = "running"
    /\ thrownBy = "none"
    /\ preludeFailure = "none"
    /\ currentBlock = NoBlock
    /\ currentTimestamp = NoBlock
    /\ events = <<>>
    /\ idx = 1
    /\ local = NoLocal
    /\ validMarkets = <<>>
    /\ returned = NoResult
    /\ answers = NoAnswers
    /\ perMarketCalls = 0

(***************************************************************************)
(* The chain produces blocks while a call is in flight.                    *)
(***************************************************************************)
AdvanceHead ==
    /\ outcome = "running"
    /\ head < FirstBlock + MaxHead
    /\ head' = head + 1
    /\ UNCHANGED <<fn, pc, outcome, thrownBy, preludeFailure, currentBlock,
                   marketAddress, block, pending, details, offChainVars,
                   currentTimestamp, events, idx, local, validMarkets,
                   returned, answers, perMarketCalls>>

(***************************************************************************)
(* findValidNonExpiredMarkets.  One action per await; the synchronous code *)
(* that follows an await, up to the next one, belongs to its action.       *)
(***************************************************************************)
\* bigint.toString(): the decimal digits, most significant first.
Digit(d) == CASE d = 0 -> "0" [] d = 1 -> "1" [] d = 2 -> "2" [] d = 3 -> "3"
              [] d = 4 -> "4" [] d = 5 -> "5" [] d = 6 -> "6" [] d = 7 -> "7"
              [] d = 8 -> "8" [] OTHER -> "9"

RECURSIVE ToDecimalString(_)
ToDecimalString(n) ==
    IF n < 0 THEN <<"-">> \o ToDecimalString(0 - n)
    ELSE IF n < 10 THEN <<Digit(n)>>
    ELSE Append(ToDecimalString(n \div 10), Digit(n % 10))

\* The reads made inside try { ... } catch (error) { console.log(...) }.
DetailReads == {"readTokens", "sySymbol", "ptSymbol", "ytSymbol",
                "readState", "totalSupply"}

\* Variants of Catches: no try block at all, and a try block around the
\* whole function body.
CatchesNothing(read) == FALSE
CatchesEverything(read) == TRUE

\* Whether a failure of `read` is caught by the try block of the loop body.
Catches(read) == read \in DetailReads

\* Variant of PassesValidity: the validity answer is ignored.
PassesValidityAlways(isValid) == TRUE

\* if (isValid) { ... } else { "Market is not valid" }
PassesValidity(isValid) == isValid

\* Variant of PassesExpiry: the expiry answer is ignored.
PassesExpiryAlways(isExpired) == TRUE

\* if (!isExpired) { ... } else { "Market is expired" }
PassesExpiry(isExpired) == ~isExpired

\* for (const event of events): the next event that has args, from position i
\* (`if (!("args" in event) || !event.args) continue`).
RECURSIVE NextWithArgs(_, _)
NextWithArgs(evts, i) ==
    IF i > Len(evts) \/ evts[i] # <<>> THEN i ELSE NextWithArgs(evts, i + 1)

\* An uncaught rejection: the async function's promise rejects.
Throw(read) ==
    /\ outcome' = "threw"
    /\ thrownBy' = read
    /\ pc' = "done"
    /\ UNCHANGED <<idx, validMarkets, returned>>

\* The loop goes on from position i of evts with validMarkets = vm, and the
\* function returns validMarkets when no event with args is left.
LoopFrom(evts, i, vm) ==
    LET j == NextWithArgs(evts, i) IN
    /\ idx' = j
    /\ validMarkets' = vm
    /\ thrownBy' = thrownBy
    /\ IF j > Len(evts)
       THEN pc' = "done" /\ outcome' = "returned" /\ returned' = vm
       ELSE pc' = "isValidMarket" /\ outcome' = outcome /\ returned' = returned

\* A read rejected: caught by the loop body's try block, or thrown.
ReadFailed(read) ==
    IF Catches(read) THEN LoopFrom(events, idx + 1, validMarkets)
    ELSE Throw(read)

Running(at) ==
    /\ fn = "findValidNonExpiredMarkets"
    /\ outcome = "running"
    /\ pc = at

\* const currentBlock = await provider.getBlockNumber();
GetBlockNumber ==
    /\ Running("getBlockNumber")
    /\ \E ok \in BOOLEAN :
        IF ok
        THEN /\ currentBlock' = head
             /\ pc' = "getBlock"
             /\ UNCHANGED <<outcome, thrownBy, preludeFailure, idx,
                            validMarkets, returned>>
        ELSE /\ preludeFailure' = "getBlockNumber"
             /\ ReadFailed("getBlockNumber")
             /\ UNCHANGED currentBlock
    /\ UNCHANGED gmdVars
    /\ UNCHANGED offChainVars
    /\ UNCHANGED <<head, fn, currentTimestamp, events, local, answers,
                   perMarketCalls>>

\* const currentBlockData = await provider.getBlock(currentBlock);
\* if (!currentBlockData) throw ...; const currentTimestamp = ...timestamp;
GetBlock ==
    /\ Running("getBlock")
    /\ \E blockData \in {"block", "null", "rejected"} :
        CASE blockData = "block" ->
               /\ currentTimestamp' = TimestampOf(currentBlock)
               /\ pc' = "queryFilter"
               /\ UNCHANGED <<outcome, thrownBy, preludeFailure, idx,
                              validMarkets, returned>>
          [] blockData = "null" ->
               /\ preludeFailure' = "missingBlockData"
               /\ ReadFailed("missingBlockData")
               /\ UNCHANGED currentTimestamp
          [] OTHER ->
               /\ preludeFailure' = "getBlock"
               /\ ReadFailed("getBlock")
               /\ UNCHANGED currentTimestamp
    /\ UNCHANGED gmdVars
    /\ UNCHANGED offChainVars
    /\ UNCHANGED <<head, fn, currentBlock, events, local, answers,
                   perMarketCalls>>

\* const events = await marketFactory.queryFilter(filter, startBlock,
\* currentBlock); const validMarkets = []; then the loop starts.
QueryFilter ==
    /\ Running("queryFilter")
    /\ \/ \E evts \in EventLists :
            /\ events' = evts
            /\ LoopFrom(evts, 1, <<>>)
            /\ UNCHANGED preludeFailure
       \/ /\ preludeFailure' = "queryFilter"
          /\ ReadFailed("queryFilter")
          /\ UNCHANGED events
    /\ UNCHANGED gmdVars
    /\ UNCHANGED offChainVars
    /\ UNCHANGED <<head, fn, currentBlock, currentTimestamp, local, answers,
                   perMarketCalls>>

\* const isValid = await marketFactory.isValidMarket(marketAddress);
IsValidMarket ==
    /\ Running("isValidMarket")
    /\ LET m == events[idx][1] IN
       \E ans \in {"true", "false", "rejected"} :
        /\ answers' = [answers EXCEPT ![m].isValid = ans]
        /\ IF ans = "rejected" THEN ReadFailed("isValidMarket")
           ELSE IF PassesValidity(ans = "true")
           THEN /\ pc' = "isExpired"
                /\ UNCHANGED <<outcome, thrownBy, idx, validMarkets, returned>>
           ELSE LoopFrom(events, idx + 1, validMarkets)
    /\ perMarketCalls' = perMarketCalls + 1
    /\ UNCHANGED gmdVars
    /\ UNCHANGED offChainVars
    /\ UNCHANGED <<head, fn, preludeFailure, currentBlock, currentTimestamp,
                   events, local>>

\* const isExpired = await market.isExpired();  served at the latest block.
IsExpired ==
    /\ Running("isExpired")
    /\ LET m == events[idx][1] IN
       \/ LET isExpired == IsExpiredAt(m, head) IN
          /\ answers' = [answers EXCEPT
                            ![m].isExpired = IF isExpired THEN "true" ELSE "false",
                            ![m].expiredAt = head]
          /\ IF PassesExpiry(isExpired)
             THEN /\ pc' = "readTokens"
                  /\ UNCHANGED <<outcome, thrownBy, idx, validMarkets, returned>>
             ELSE LoopFrom(events, idx + 1, validMarkets)
       \/ /\ answers' = [answers EXCEPT ![m].isExpired = "rejected"]
          /\ ReadFailed("isExpired")
    /\ perMarketCalls' = perMarketCalls + 1
    /\ UNCHANGED gmdVars
    /\ UNCHANGED offChainVars
    /\ UNCHANGED <<head, fn, preludeFailure, currentBlock, currentTimestamp,
                   events, local>>

\* One awaited read of the try block that is not the last: on success the
\* const it defines is set (newLocal) and the next read is awaited.
DetailRead(read, nextRead, newLocal) ==
    /\ Running(read)
    /\ LET m == events[idx][1] IN
       \/ /\ local' = newLocal
          /\ pc' = nextRead
          /\ UNCHANGED <<outcome, thrownBy, idx, validMarkets, returned,
                         answers>>
       \/ /\ answers' = [answers EXCEPT ![m].details = "rejected"]
          /\ ReadFailed(read)
          /\ local' = NoLocal
    /\ perMarketCalls' = perMarketCalls + 1
    /\ UNCHANGED gmdVars
    /\ UNCHANGED offChainVars
    /\ UNCHANGED <<head, fn, preludeFailure, currentBlock, currentTimestamp,
                   events>>

\* const [syAddress, ptAddress, ytAddress] = await market.readTokens();
ReadTokens == DetailRead("readTokens", "sySymbol", local)

\* const sySymbol = await sy.symbol();
SySymbol ==
    DetailRead("sySymbol", "ptSymbol",
               [local EXCEPT !.sySymbol = SymbolOf("SY", events[idx][1])])

\* const ptSymbol = await pt.symbol();
PtSymbol ==
    DetailRead("ptSymbol", "ytSymbol",
               [local EXCEPT !.ptSymbol = SymbolOf("PT", events[idx][1])])

\* const ytSymbol = await yt.symbol();
YtSymbol ==
    DetailRead("ytSymbol", "readState",
               [local EXCEPT !.ytSymbol = SymbolOf("YT", events[idx][1])])

\* const state = await market.readState(ethers.ZeroAddress);
\* const expiry = Number(state.expiry);
ReadState ==
    DetailRead("readState", "totalSupply",
               [local EXCEPT !.expiry = ExpiryOf(events[idx][1])])

\* validMarkets.push({ address, sySymbol, ..., timestamp, blockNumber })
MarketInfo(m, loc, totalLpSupply, timestamp, blockNumber) ==
    [address |-> m,
     sySymbol |-> loc.sySymbol,
     ptSymbol |-> loc.ptSymbol,
     ytSymbol |-> loc.ytSymbol,
     expiry |-> loc.expiry,
     totalLpSupply |-> ToDecimalString(totalLpSupply),
     timestamp |-> timestamp,
     blockNumber |-> blockNumber]

\* const totalLpSupply = await market.totalSupply(); validMarkets.push(...)
TotalSupply ==
    /\ Running("totalSupply")
    /\ LET m == events[idx][1] IN
       \/ /\ answers' = [answers EXCEPT ![m].details = "ok"]
          /\ LoopFrom(events, idx + 1,
                      Append(validMarkets,
                             MarketInfo(m, local, LpSupplyAt(m, head),
                                        currentTimestamp, currentBlock)))
       \/ /\ answers' = [answers EXCEPT ![m].details = "rejected"]
          /\ ReadFailed("totalSupply")
    /\ local' = NoLocal
    /\ perMarketCalls' = perMarketCalls + 1
    /\ UNCHANGED gmdVars
    /\ UNCHANGED offChainVars
    /\ UNCHANGED <<head, fn, preludeFailure, currentBlock, currentTimestamp,
                   events>>

(***************************************************************************)
(* getMarketDetails.  A Promise.all issues its reads together; each is     *)
(* served by the chain on its own, at the block that is latest then, and   *)
(* the first rejection rejects the Promise.all.                            *)
(***************************************************************************)
Detailing(at) ==
    /\ fn = "getMarketDetails"
    /\ outcome = "running"
    /\ pc = at

\* state: { totalPt: state.totalPt.toString(), ..., expiry: Number(...) }
StateDetails(state) ==
    [totalPt |-> ToDecimalString(state.totalPt),
     totalSy |-> ToDecimalString(state.totalSy),
     totalLp |-> ToDecimalString(state.totalLp),
     treasury |-> state.treasury,
     scalarRoot |-> ToDecimalString(state.scalarRoot),
     expiry |-> state.expiry,
     lnFeeRateRoot |-> ToDecimalString(state.lnFeeRateRoot),
     reserveFeePercent |-> state.reserveFeePercent,
     lastLnImpliedRate |-> ToDecimalString(state.lastLnImpliedRate)]

\* return { address: marketAddress, sySymbol, ..., syRewards: {...} }
MarketDetails(m, blk, d) ==
    [address |-> m,
     sySymbol |-> d.sySymbol,
     ptSymbol |-> d.ptSymbol,
     ytSymbol |-> d.ytSymbol,
     state |-> StateDetails(d.state),
     syAddress |-> d.tokens.SY,
     ptAddress |-> d.tokens.PT,
     ytAddress |-> d.tokens.YT,
     timestamp |-> blk.timestamp,
     blockNumber |-> blk.number,
     syExchangeRate |-> ToDecimalString(d.syExchangeRate),
     rewardTokens |-> d.rewardTokens,
     creationBlock |-> d.creationBlock,
     creationTimestamp |-> d.creationTimestamp,
     syRewards |-> [tokens |-> d.syRewardTokens,
                    rates |-> d.syRewardRates,
                    symbols |-> d.syRewardSymbols]]

\* An uncaught rejection in getMarketDetails.
Reject(read) ==
    /\ outcome' = "threw"
    /\ thrownBy' = read
    /\ pc' = "done"
    /\ pending' = {}
    /\ UNCHANGED <<returned, details>>

\* The function goes on to await `at`, a Promise.all of `reads` when given.
GoOn(at, reads, d) ==
    /\ pc' = at
    /\ pending' = reads
    /\ details' = d
    /\ UNCHANGED <<outcome, thrownBy, returned>>

\* The return statement, the lets and consts being d.
Return(d) ==
    /\ pc' = "done"
    /\ pending' = {}
    /\ details' = d
    /\ outcome' = "returned"
    /\ returned' = MarketDetails(marketAddress, block, d)
    /\ UNCHANGED thrownBy

\* const block = await provider.getBlock("latest");
\* if (!block) throw new Error("Failed to get latest block");
GetLatestBlock ==
    /\ Detailing("getLatestBlock")
    /\ \E blockData \in {"block", "null", "rejected"} :
        IF blockData = "block"
        THEN /\ block' = [number |-> head, timestamp |-> TimestampOf(head)]
             /\ GoOn("core", {"readTokens", "readState", "getRewardTokens"},
                     details)
        ELSE /\ Reject(IF blockData = "null" THEN "missingBlockData"
                                              ELSE "getLatestBlock")
             /\ UNCHANGED block
    /\ UNCHANGED <<head, fn, marketAddress>>
    /\ UNCHANGED discVars
    /\ UNCHANGED offChainVars

\* const [tokens, state, rewardTokens] = await Promise.all([
\*   market.readTokens(), market.readState(ZeroAddress),
\*   market.getRewardTokens()]);
CoreRead ==
    /\ Detailing("core")
    /\ \E read \in pending :
        \/ LET d == CASE read = "readTokens" ->
                          [details EXCEPT !.tokens = TokensOf(marketAddress)]
                     [] read = "readState" ->
                          [details EXCEPT
                              !.state = StateAt(marketAddress, head)]
                     [] OTHER ->
                          [details EXCEPT
                              !.rewardTokens = RewardTokensOf(marketAddress)]
           IN IF pending = {read}
              THEN GoOn("tokenInfo",
                        {"sySymbol", "ptSymbol", "ytSymbol", "exchangeRate",
                         "pyIndexStored"}, d)
              ELSE GoOn("core", pending \ {read}, d)
        \/ Reject(read)
    /\ UNCHANGED <<head, fn, marketAddress, block>>
    /\ UNCHANGED discVars
    /\ UNCHANGED offChainVars

\* const [sySymbol, ptSymbol, ytSymbol, currentExchangeRate, currentYtIndex]
\*   = await Promise.all([...symbol(), exchangeRate(), pyIndexStored()]);
TokenInfoRead ==
    /\ Detailing("tokenInfo")
    /\ \E read \in pending :
        \/ LET d == CASE read = "sySymbol" ->
                          [details EXCEPT
                              !.sySymbol = SymbolOf("SY", marketAddress)]
                     [] read = "ptSymbol" ->
                          [details EXCEPT
                              !.ptSymbol = SymbolOf("PT", marketAddress)]
                     [] read = "ytSymbol" ->
                          [details EXCEPT
                              !.ytSymbol = SymbolOf("YT", marketAddress)]
                     [] read = "exchangeRate" ->
                          [details EXCEPT
                              !.syExchangeRate =
                                  ExchangeRateAt(marketAddress, head)]
                     [] OTHER -> details
           IN IF pending = {read}
              THEN GoOn("usd0Info", {"name", "symbol", "decimals"}, d)
              ELSE GoOn("tokenInfo", pending \ {read}, d)
        \/ Reject(read)
    /\ UNCHANGED <<head, fn, marketAddress, block>>
    /\ UNCHANGED discVars
    /\ UNCHANGED offChainVars

\* try { const [name, symbol, decimals] = await Promise.all([...]); log }
\* catch (error) { console.warn(...) }
Usd0InfoRead ==
    /\ Detailing("usd0Info")
    /\ \E read \in pending :
        \/ IF pending = {read}
           THEN GoOn("getCode", {}, details)
           ELSE GoOn("usd0Info", pending \ {read}, details)
        \/ GoOn("getCode", {}, details)
    /\ UNCHANGED <<head, fn, marketAddress, block>>
    /\ UNCHANGED discVars
    /\ UNCHANGED offChainVars

\* try { const code = await provider.getCode(marketAddress);
\*       if (code !== "0x") { ... } } catch (error) { console.warn(...) }
GetCode ==
    /\ Detailing("getCode")
    /\ \E code \in {"code", "0x", "rejected"} :
        IF code = "code" THEN GoOn("getLogs", {}, details)
        ELSE GoOn("syRewardTokens", {}, details)
    /\ UNCHANGED <<head, fn, marketAddress, block>>
    /\ UNCHANGED discVars
    /\ UNCHANGED offChainVars

\* const events = await provider.getLogs(filter);
\* if (events.length > 0) { creationBlock = events[0].blockNumber; ... }
GetLogs ==
    /\ Detailing("getLogs")
    /\ \E logs \in {"logs", "empty", "rejected"} :
        IF logs = "logs"
        THEN GoOn("getCreationBlock", {},
                  [details EXCEPT
                      !.creationBlock = CreationBlockOf(marketAddress)])
        ELSE GoOn("syRewardTokens", {}, details)
    /\ UNCHANGED <<head, fn, marketAddress, block>>
    /\ UNCHANGED discVars
    /\ UNCHANGED offChainVars

\* const creationBlockData = await provider.getBlock(creationBlock);
\* creationTimestamp = creationBlockData?.timestamp;
GetCreationBlock ==
    /\ Detailing("getCreationBlock")
    /\ \E blockData \in {"block", "null", "rejected"} :
        IF blockData = "block"
        THEN GoOn("syRewardTokens", {},
                  [details EXCEPT
                      !.creationTimestamp = TimestampOf(details.creationBlock)])
        ELSE GoOn("syRewardTokens", {}, details)
    /\ UNCHANGED <<head, fn, marketAddress, block>>
    /\ UNCHANGED discVars
    /\ UNCHANGED offChainVars

\* try { syRewardTokens = await syTokenContract.getRewardTokens(); ... }
\* catch (error) { console.warn(...) }
SyRewardTokens ==
    /\ Detailing("syRewardTokens")
    /\ \/ \E toks \in RewardTokenLists :
            GoOn("accruedRewards", {},
                 [details EXCEPT !.syRewardTokens = toks])
       \/ Return(details)
    /\ UNCHANGED <<head, fn, marketAddress, block>>
    /\ UNCHANGED discVars
    /\ UNCHANGED offChainVars

\* const rewardAmounts = await syTokenContract.accruedRewards(testAddress);
\* syRewardRates = rewardAmounts.map((amount) => amount.toString());
\* then the Promise.all of the reward tokens' symbol() is awaited.
AccruedRewards ==
    /\ Detailing("accruedRewards")
    /\ \/ LET toks == details.syRewardTokens
              d == [details EXCEPT
                       !.syRewardRates =
                           [i \in 1..Len(toks) |-> ToDecimalString(0)]]
          IN IF toks = <<>> THEN Return(d)
             ELSE GoOn("rewardSymbols", 1..Len(toks), d)
       \/ Return(details)
    /\ UNCHANGED <<head, fn, marketAddress, block>>
    /\ UNCHANGED discVars
    /\ UNCHANGED offChainVars

\* syRewardSymbols = await Promise.all(
\*   rewardTokenContracts.map((contract) => contract.symbol()));
RewardSymbolRead ==
    /\ Detailing("rewardSymbols")
    /\ \E i \in pending :
        \/ IF pending = {i}
           THEN Return([details EXCEPT
                           !.syRewardSymbols =
                               [k \in 1..Len(details.syRewardTokens) |->
                                   RewardSymbolOf(details.syRewardTokens[k])]])
           ELSE GoOn("rewardSymbols", pending \ {i}, details)
        \/ Return(details)
    /\ UNCHANGED <<head, fn, marketAddress, block>>
    /\ UNCHANGED discVars
    /\ UNCHANGED offChainVars

Next ==
    \/ AdvanceHead
    \/ GetBlockNumber
    \/ GetBlock
    \/ QueryFilter
    \/ IsValidMarket
    \/ IsExpired
    \/ ReadTokens
    \/ SySymbol
    \/ PtSymbol
    \/ YtSymbol
    \/ ReadState
    \/ TotalSupply
    \/ GetLatestBlock
    \/ CoreRead
    \/ TokenInfoRead
    \/ Usd0InfoRead
    \/ GetCode
    \/ GetLogs
    \/ GetCreationBlock
    \/ SyRewardTokens
    \/ AccruedRewards
    \/ RewardSymbolRead

Spec == Init /\ [][Next]_vars

(***************************************************************************)
(* The stablecoin classifier.                                              *)
(***************************************************************************)
LowerLetters == <<"a", "b", "c", "d", "e", "f", "g", "h", "i", "j", "k", "l",
                  "m", "n", "o", "p", "q", "r", "s", "t", "u", "v", "w", "x",
                  "y", "z">>
UpperLetters == <<"A", "B", "C", "D", "E", "F", "G", "H", "I", "J", "K", "L",
                  "M", "N", "O", "P", "Q", "R", "S", "T", "U", "V", "W", "X",
                  "Y", "Z">>

\* Position of character c in the alphabet `letters`, 0 when it is not one.
LetterIndex(letters, c) ==
    IF \E i \in 1..Len(letters) : letters[i] = c
    THEN CHOOSE i \in 1..Len(letters) : letters[i] = c
    ELSE 0

\* Variant of ToUpperCase: the symbol is compared as it is.
SameCase(str) == str

\* String.prototype.toUpperCase(), on a string of ASCII characters.
ToUpperCase(str) ==
    [i \in 1..Len(str) |->
        IF LetterIndex(LowerLetters, str[i]) = 0 THEN str[i]
        ELSE UpperLetters[LetterIndex(LowerLetters, str[i])]]

\* String.prototype.includes(search).
Includes(str, search) ==
    \E k \in 0..(Len(str) - Len(search)) :
        \A i \in 1..Len(search) : str[k + i] = search[i]

\* Variant of STABLECOIN_IDENTIFIERS: the list without its first entry, "USD".
IdentifiersWithoutUsd ==
    << <<"U", "S", "D", "C">>, <<"U", "S", "D", "T">>, <<"D", "A", "I">>,
       <<"U", "S", "D", "E">>, <<"U", "S", "D", "S">>, <<"s", "U", "S", "D">>,
       <<"U", "S", "U", "A", "L">>, <<"c", "r", "v", "U", "S", "D">> >>

\* const STABLECOIN_IDENTIFIERS = ["USD", "USDC", ..., "crvUSD"];
STABLECOIN_IDENTIFIERS ==
    << <<"U", "S", "D">>, <<"U", "S", "D", "C">>, <<"U", "S", "D", "T">>,
       <<"D", "A", "I">>, <<"U", "S", "D", "E">>, <<"U", "S", "D", "S">>,
       <<"s", "U", "S", "D">>, <<"U", "S", "U", "A", "L">>,
       <<"c", "r", "v", "U", "S", "D">> >>

\* function isStablecoinMarket(market: MarketInfo): boolean
IsStablecoinMarket(market) ==
    LET symbols == <<ToUpperCase(market.sySymbol),
                     ToUpperCase(market.ptSymbol),
                     ToUpperCase(market.ytSymbol)>>
    IN \E s \in 1..Len(symbols) :
         \E k \in 1..Len(STABLECOIN_IDENTIFIERS) :
            Includes(symbols[s], STABLECOIN_IDENTIFIERS[k])

(***************************************************************************)
(* main() of fetch-active-markets, fetch-stablecoin-markets and            *)
(* market-interactions: discover, select, sort, print, save.               *)
(***************************************************************************)
\* The chain readers are not running.
ChainIdle ==
    /\ head = FirstBlock
    /\ fn = "none"
    /\ pc = "done"
    /\ outcome = "idle"
    /\ thrownBy = "none"
    /\ preludeFailure = "none"
    /\ currentBlock = NoBlock
    /\ currentTimestamp = NoBlock
    /\ events = <<>>
    /\ idx = 1
    /\ local = NoLocal
    /\ validMarkets = <<>>
    /\ returned = NoResult
    /\ answers = NoAnswers
    /\ perMarketCalls = 0
    /\ marketAddress = 0
    /\ block = [number |-> NoBlock, timestamp |-> NoBlock]
    /\ pending = {}
    /\ details = NoDetails

Scripts == {"fetch-active-markets", "fetch-stablecoin-markets",
            "market-interactions"}

\* const MARKET_FACTORIES = { V3: ..., V4: ... }; the other scripts query
\* MARKET_FACTORY_V5 alone.
FactoriesOf(scr) ==
    IF scr = "market-interactions" THEN <<"V3", "V4">> ELSE <<"V5">>

\* Expiries a returned record can have: after the call's timestamp.
FutureExpiries == {TimestampOf(FirstBlock + k) : k \in 1..MaxFuture}

\* The record findValidNonExpiredMarkets returns at position n for a market
\* of the given factory, expiry and underlying; market-interactions' records
\* carry the factory version.
ReturnedInfo(factory, n, expiry, underlying) ==
    [factory |-> factory] @@
    MarketInfo(IF factory = "V4" THEN MaxListed + n ELSE n,
               [sySymbol |-> SymbolOf("SY", underlying),
                ptSymbol |-> SymbolOf("PT", underlying),
                ytSymbol |-> SymbolOf("YT", underlying),
                expiry |-> expiry],
               LpSupplyAt(n, FirstBlock), TimestampOf(FirstBlock), FirstBlock)

\* The lists of n records one findValidNonExpiredMarkets call can return.
RECURSIVE ListsOfLen(_, _, _)
ListsOfLen(factory, n, underlyings) ==
    IF n = 0 THEN {<<>>}
    ELSE {Append(list, ReturnedInfo(factory, n, e, u)) :
             list \in ListsOfLen(factory, n - 1, underlyings),
             e \in FutureExpiries, u \in underlyings}

\* Only fetch-stablecoin-markets reads the symbols of the records.
DiscoveryResults(scr, factory) ==
    UNION {ListsOfLen(factory, n,
                      IF scr = "fetch-stablecoin-markets" THEN {0, 1} ELSE {0}) :
              n \in 0..MaxListed}

\* Variant of CompareExpiry: the operands swapped.
CompareExpiryDescending(a, b) == b.expiry - a.expiry

\* (a, b) => a.expiry - b.expiry
CompareExpiry(a, b) == a.expiry - b.expiry

\* Array.prototype.sort(compareFn) is a stable sort: x goes after every
\* element that does not compare greater than it.
RECURSIVE InsertSorted(_, _)
InsertSorted(sorted, x) ==
    IF sorted = <<>> THEN <<x>>
    ELSE IF CompareExpiry(Head(sorted), x) <= 0
    THEN <<Head(sorted)>> \o InsertSorted(Tail(sorted), x)
    ELSE <<x>> \o sorted

\* markets.sort((a, b) => a.expiry - b.expiry)
RECURSIVE SortByExpiry(_)
SortByExpiry(arr) ==
    IF arr = <<>> THEN <<>>
    ELSE InsertSorted(SortByExpiry(SubSeq(arr, 1, Len(arr) - 1)),
                      arr[Len(arr)])

\* The factory versions of arr, in the order of their first occurrence: the
\* key order of marketsByFactory.
RECURSIVE FactoryKeys(_)
FactoryKeys(arr) ==
    IF arr = <<>> THEN <<>>
    ELSE LET front == FactoryKeys(SubSeq(arr, 1, Len(arr) - 1))
             last == arr[Len(arr)].factory
         IN IF \E i \in 1..Len(front) : front[i] = last THEN front
            ELSE Append(front, last)

\* The summary by factory version prints marketsByFactory group by group.
RECURSIVE PrintedByFactory(_, _)
PrintedByFactory(keys, arr) ==
    IF keys = <<>> THEN <<>>
    ELSE SelectSeq(arr, LAMBDA info : info.factory = Head(keys))
         \o PrintedByFactory(Tail(keys), arr)

InitMain ==
    /\ ChainIdle
    /\ ClassifierIdle
    /\ MetricsIdle
    /\ ApiIdle
    /\ OracleIdle
    /\ ProbeIdle
    /\ script \in Scripts
    /\ mainPc = "connect"
    /\ factories = FactoriesOf(script)
    /\ markets = <<>>
    /\ selected = NotYet
    /\ displayed = NotYet
    /\ saved = NotYet

\* const provider = await connectToProvider(process.env.ETH_RPC_URL);
\* a rejection reaches main().catch: process.exit(1).
Connect ==
    /\ mainPc = "connect"
    /\ \E ok \in BOOLEAN : mainPc' = IF ok THEN "discover" ELSE "exit1"
    /\ UNCHANGED <<script, factories, markets, selected, displayed, saved>>
    /\ UNCHANGED chainVars
    /\ UNCHANGED pureVars

\* fetch-active-markets: const markets = await findValidNonExpiredMarkets(
\* marketFactory, provider); markets.sort(...); the summary is printed.
DiscoverActive ==
    /\ mainPc = "discover"
    /\ script = "fetch-active-markets"
    /\ \/ \E list \in DiscoveryResults(script, Head(factories)) :
            /\ selected' = list
            /\ markets' = SortByExpiry(list)
            /\ displayed' = SortByExpiry(list)
            /\ mainPc' = "save"
       \/ /\ mainPc' = "exit1"
          /\ UNCHANGED <<markets, selected, displayed>>
    /\ UNCHANGED <<script, factories, saved>>
    /\ UNCHANGED chainVars
    /\ UNCHANGED pureVars

\* fetch-stablecoin-markets: const allMarkets = await findValid...(...);
\* const stablecoinMarkets = allMarkets.filter(isStablecoinMarket);
\* stablecoinMarkets.sort(...); the summary is printed.
DiscoverStablecoin ==
    /\ mainPc = "discover"
    /\ script = "fetch-stablecoin-markets"
    /\ \/ \E list \in DiscoveryResults(script, Head(factories)) :
            LET stablecoinMarkets == SelectSeq(list, IsStablecoinMarket) IN
            /\ selected' = stablecoinMarkets
            /\ markets' = SortByExpiry(stablecoinMarkets)
            /\ displayed' = SortByExpiry(stablecoinMarkets)
            /\ mainPc' = "save"
       \/ /\ mainPc' = "exit1"
          /\ UNCHANGED <<markets, selected, displayed>>
    /\ UNCHANGED <<script, factories, saved>>
    /\ UNCHANGED chainVars
    /\ UNCHANGED pureVars

\* market-interactions: for each factory version, const markets = await
\* findValid...(...); allMarkets.push(...markets); after the last one,
\* allMarkets.sort(...) and the summary by factory version is printed.
DiscoverFactory ==
    /\ mainPc = "discover"
    /\ script = "market-interactions"
    /\ \/ \E list \in DiscoveryResults(script, Head(factories)) :
            LET allMarkets == markets \o list IN
            /\ factories' = Tail(factories)
            /\ IF Tail(factories) = <<>>
               THEN /\ selected' = allMarkets
                    /\ markets' = SortByExpiry(allMarkets)
                    /\ displayed' =
                           PrintedByFactory(
                               FactoryKeys(SortByExpiry(allMarkets)),
                               SortByExpiry(allMarkets))
                    /\ mainPc' = "exit0"
               ELSE /\ markets' = allMarkets
                    /\ mainPc' = "discover"
                    /\ UNCHANGED <<selected, displayed>>
       \/ /\ mainPc' = "exit1"
          /\ UNCHANGED <<factories, markets, selected, displayed>>
    /\ UNCHANGED <<script, saved>>
    /\ UNCHANGED chainVars
    /\ UNCHANGED pureVars

\* formatDate(timestamp): the date to the minute.
FormatDate(timestamp) == [minute |-> timestamp \div 60]

\* fetch-stablecoin-markets: formatMarketData(markets).markets, the records
\* mapped one by one to their display form.
FormattedMarkets(arr) ==
    [i \in 1..Len(arr) |->
        [address |-> arr[i].address,
         sySymbol |-> arr[i].sySymbol,
         ptSymbol |-> arr[i].ptSymbol,
         ytSymbol |-> arr[i].ytSymbol,
         expiry |-> FormatDate(arr[i].expiry),
         totalLpSupply |-> [etherOf |-> arr[i].totalLpSupply],
         timestamp |-> FormatDate(arr[i].timestamp),
         blockNumber |-> arr[i].blockNumber]]

\* await saveMarketsData(markets, outputPath): the records are written in
\* array order, fetch-stablecoin-markets writing their display form; a
\* failing write reaches main().catch.
SaveMarketsData ==
    /\ mainPc = "save"
    /\ \/ /\ saved' = IF script = "fetch-stablecoin-markets"
                       THEN FormattedMarkets(markets) ELSE markets
          /\ mainPc' = "exit0"
       \/ mainPc' = "exit1" /\ UNCHANGED saved
    /\ UNCHANGED <<script, factories, markets, selected, displayed>>
    /\ UNCHANGED chainVars
    /\ UNCHANGED pureVars

NextMain ==
    \/ Connect
    \/ DiscoverActive
    \/ DiscoverStablecoin
    \/ DiscoverFactory
    \/ SaveMarketsData

SpecMain == InitMain /\ [][NextMain]_vars

(***************************************************************************)
(* isStablecoinMarket, applied to a record and to a record whose symbols   *)
(* are the same letters in another case.                                   *)
(***************************************************************************)
\* String.prototype.toLowerCase(), on a string of ASCII characters.
ToLowerCase(str) ==
    [i \in 1..Len(str) |->
        IF LetterIndex(UpperLetters, str[i]) = 0 THEN str[i]
        ELSE LowerLetters[LetterIndex(UpperLetters, str[i])]]

\* Every spelling of str that differs from it only in the case of letters.
RECURSIVE Recasings(_)
Recasings(str) ==
    IF str = <<>> THEN {<<>>}
    ELSE {<<c>> \o rest :
             c \in {ToLowerCase(<<Head(str)>>)[1], ToUpperCase(<<Head(str)>>)[1]},
             rest \in Recasings(Tail(str))}

\* Token symbols as they are deployed.
Eth == <<"e", "E", "T", "H">>
KnownSymbols ==
    { <<"U", "S", "D">>, <<"s", "U", "S", "D">>, <<"c", "r", "v", "U", "S", "D">>,
      <<"D", "A", "I">>, <<"U", "S", "U", "A", "L">>, <<"U", "S", "D", "C">>,
      <<"U", "S", "D", "T">>, <<"U", "S", "D", "e">>, <<"U", "S", "D", "S">>,
      <<"U", "S", "-", "D">>, <<"D", "A", "1">>, <<"U", "S", "U", "A", "l", "0">>,
      <<"S", "D", "U">>, Eth }

\* The records classified: a known symbol on one of the three tokens.
Candidates ==
    {[sySymbol |-> s, ptSymbol |-> Eth, ytSymbol |-> Eth] : s \in KnownSymbols}
    \cup {[sySymbol |-> Eth, ptSymbol |-> <<"D", "A", "I">>, ytSymbol |-> Eth],
          [sySymbol |-> Eth, ptSymbol |-> Eth, ytSymbol |-> <<"U", "S", "D">>]}

InitClassifier ==
    /\ ChainIdle
    /\ MainIdle
    /\ MetricsIdle
    /\ ApiIdle
    /\ OracleIdle
    /\ ProbeIdle
    /\ candidate \in Candidates
    /\ classified = <<>>

\* isStablecoinMarket(candidate)
Classify ==
    /\ classified = <<>>
    /\ classified' = <<[market |-> candidate,
                        result |-> IsStablecoinMarket(candidate)]>>
    /\ UNCHANGED candidate
    /\ UNCHANGED <<chainVars, mainVars, metricVars, apiVars, oracleVars,
                 probeVars>>

\* isStablecoinMarket(recased), for a record whose symbols differ from the
\* first one's only in the case of letters.
ClassifyRecased ==
    /\ Len(classified) = 1
    /\ \E sy \in Recasings(candidate.sySymbol),
          pt \in Recasings(candidate.ptSymbol),
          yt \in Recasings(candidate.ytSymbol) :
          LET recased == [sySymbol |-> sy, ptSymbol |-> pt, ytSymbol |-> yt] IN
          /\ candidate' = recased
          /\ classified' = Append(classified,
                                  [market |-> recased,
                                   result |-> IsStablecoinMarket(recased)])
    /\ UNCHANGED <<chainVars, mainVars, metricVars, apiVars, oracleVars,
                 probeVars>>

NextClassifier ==
    \/ Classify
    \/ ClassifyRecased

SpecClassifier == InitClassifier /\ [][NextClassifier]_vars

(***************************************************************************)
(* The helpers of formatMarketData.  A JavaScript number is modelled as    *)
(* the exact rational it stands for, or NaN or an infinity; the rounding   *)
(* of the double format is left out.                                       *)
(***************************************************************************)
Digits == <<"0", "1", "2", "3", "4", "5", "6", "7", "8", "9">>

\* The value of a decimal digit character.
DigitValue(c) == (CHOOSE d \in 1..Len(Digits) : Digits[d] = c) - 1

\* BigInt(str), for the decimal strings the records hold.
RECURSIVE GetBigInt(_)
GetBigInt(str) ==
    IF Head(str) = "-" THEN 0 - GetBigInt(Tail(str))
    ELSE IF Len(str) = 1 THEN DigitValue(str[1])
    ELSE 10 * GetBigInt(SubSeq(str, 1, Len(str) - 1)) + DigitValue(str[Len(str)])

\* The number of "0" characters a decimal string ends with.
RECURSIVE TrailingZeros(_)
TrailingZeros(str) ==
    IF Len(str) <= 1 \/ str[Len(str)] # "0" THEN 0
    ELSE 1 + TrailingZeros(SubSeq(str, 1, Len(str) - 1))

\* A bigint is held as m * 10^e with m not a multiple of ten, so that values
\* of the size of 10^18 and their exact sums and products can be written.
RECURSIVE BigNorm(_, _)
BigNorm(m, e) ==
    IF m = 0 THEN [m |-> 0, e |-> 0]
    ELSE IF m % 10 = 0 THEN BigNorm(m \div 10, e + 1)
    ELSE [m |-> m, e |-> e]

\* BigInt(str)
BigInt(str) ==
    BigNorm(GetBigInt(SubSeq(str, 1, Len(str) - TrailingZeros(str))),
            TrailingZeros(str))

\* ethers.formatEther(value): the value as a decimal with 18 fraction
\* digits, the trailing zeros dropped.
FormatEther(value) ==
    [units |-> BigInt(value).m, decimals |-> EtherDecimals - BigInt(value).e]

Abs(n) == IF n < 0 THEN 0 - n ELSE n

RECURSIVE Gcd(_, _)
Gcd(a, b) == IF b = 0 THEN a ELSE Gcd(b, a % b)

\* The JavaScript number num / den * 10^exp10, in lowest terms and with the
\* powers of ten moved into exp10.
RECURSIVE Num(_, _, _)
Num(num, den, exp10) ==
    IF num = 0 THEN [kind |-> "finite", num |-> 0, den |-> 1, exp10 |-> 0]
    ELSE IF den < 0 THEN Num(0 - num, 0 - den, exp10)
    ELSE IF num % 10 = 0 THEN Num(num \div 10, den, exp10 + 1)
    ELSE IF den % 10 = 0 THEN Num(num, den \div 10, exp10 - 1)
    ELSE [kind |-> "finite",
          num |-> num \div Gcd(Abs(num), den),
          den |-> den \div Gcd(Abs(num), den),
          exp10 |-> exp10]

\* NaN, Infinity and -Infinity.
NonFinite(kind) == [kind |-> kind, num |-> 0, den |-> 1, exp10 |-> 0]

\* 1, 0 or -1 as x is positive, zero or NaN, or negative.
Sign(x) ==
    CASE x.kind = "Infinity" -> 1
      [] x.kind = "-Infinity" -> 0 - 1
      [] x.kind = "NaN" -> 0
      [] OTHER -> IF x.num > 0 THEN 1 ELSE IF x.num < 0 THEN 0 - 1 ELSE 0

\* Number(formatted): units / 10^decimals.
ToNumber(formatted) == Num(formatted.units, 1, 0 - formatted.decimals)

RECURSIVE Pow10(_)
Pow10(n) == IF n = 0 THEN 1 ELSE 10 * Pow10(n - 1)

\* a + b on bigints.
BigAdd(a, b) ==
    IF a.m = 0 THEN b
    ELSE IF b.m = 0 THEN a
    ELSE LET e == IF a.e < b.e THEN a.e ELSE b.e
         IN BigNorm(a.m * Pow10(a.e - e) + b.m * Pow10(b.e - e), e)

\* a - b on bigints.
BigSub(a, b) == BigAdd(a, [m |-> 0 - b.m, e |-> b.e])

\* Variant of BigGreater: the operands swapped.
BigLess(a, b) == BigSub(a, b).m < 0

\* a > b on bigints.
BigGreater(a, b) == BigSub(a, b).m > 0

\* a * b on bigints.
BigMul(a, b) == BigNorm(a.m * b.m, a.e + b.e)

\* Variant of BigDiv: the quotient rounded down.
BigDivFloor(a, b) ==
    IF a.e >= b.e THEN BigNorm(a.m, a.e - b.e)
    ELSE IF b.e - a.e > 9 THEN BigNorm(0, 0)
    ELSE BigNorm(a.m \div Pow10(b.e - a.e), 0)

\* a / b on bigints, for b a power of ten: the quotient truncated towards 0.
BigDiv(a, b) ==
    IF a.e >= b.e THEN BigNorm(a.m, a.e - b.e)
    ELSE IF b.e - a.e > 9 THEN BigNorm(0, 0)
    ELSE LET q == Abs(a.m) \div Pow10(b.e - a.e)
         IN BigNorm(IF a.m < 0 THEN 0 - q ELSE q, 0)

\* bigint.toString()
BigToString(a) == ToDecimalString(a.m) \o [i \in 1..a.e |-> "0"]

\* a / b on JavaScript numbers: no fault for a zero divisor, but NaN or an
\* infinity.
Divide(a, b) ==
    IF b.num = 0
    THEN NonFinite(IF a.num = 0 THEN "NaN"
                   ELSE IF a.num > 0 THEN "Infinity" ELSE "-Infinity")
    ELSE Num(a.num * b.den, a.den * b.num, a.exp10 - b.exp10)

\* a * b on JavaScript numbers.
NumMul(a, b) ==
    IF a.kind = "finite" /\ b.kind = "finite"
    THEN Num(a.num * b.num, a.den * b.den, a.exp10 + b.exp10)
    ELSE IF Sign(a) * Sign(b) = 0 THEN NonFinite("NaN")
    ELSE IF Sign(a) * Sign(b) > 0 THEN NonFinite("Infinity")
    ELSE NonFinite("-Infinity")

\* a * k for an integer k.
Times(a, k) == NumMul(a, Num(k, 1, 0))

\* Variant of NumSub: the operands swapped.
NumSubSwapped(a, b) ==
    IF a.kind = "finite" /\ b.kind = "finite"
    THEN LET e == IF a.exp10 < b.exp10 THEN a.exp10 ELSE b.exp10
         IN Num(b.num * Pow10(b.exp10 - e) * a.den
                   - a.num * Pow10(a.exp10 - e) * b.den,
                a.den * b.den, e)
    ELSE NonFinite("NaN")

\* a - b on JavaScript numbers.
NumSub(a, b) ==
    IF a.kind = "finite" /\ b.kind = "finite"
    THEN LET e == IF a.exp10 < b.exp10 THEN a.exp10 ELSE b.exp10
         IN Num(a.num * Pow10(a.exp10 - e) * b.den
                   - b.num * Pow10(b.exp10 - e) * a.den,
                a.den * b.den, e)
    ELSE IF a.kind = "NaN" \/ b.kind = "NaN" \/ a.kind = b.kind
    THEN NonFinite("NaN")
    ELSE IF a.kind = "finite"
    THEN NonFinite(IF b.kind = "Infinity" THEN "-Infinity" ELSE "Infinity")
    ELSE a

\* Number.prototype.toFixed(digits): the nearest multiple of 10^-digits, the
\* larger one of two equally near; "-" in front of a negative number.
ToFixed(x, digits) ==
    IF x.kind # "finite" THEN
        CASE x.kind = "NaN" -> <<"N", "a", "N">>
          [] x.kind = "Infinity" -> <<"I", "n", "f", "i", "n", "i", "t", "y">>
          [] OTHER -> <<"-", "I", "n", "f", "i", "n", "i", "t", "y">>
    ELSE LET p == digits + x.exp10
             n == Abs(x.num) * (IF p > 0 THEN Pow10(p) ELSE 1)
             d == x.den * (IF p < 0 THEN Pow10(0 - p) ELSE 1)
             scaled == (2 * n + d) \div (2 * d)
         IN (IF x.num < 0 THEN <<"-">> ELSE <<>>)
            \o ToDecimalString(scaled \div Pow10(digits))
            \o <<".">>
            \o [i \in 1..digits |->
                   Digit((scaled \div Pow10(digits - i)) % 10)]

\* Math.exp at the arguments the snapshots below lead to, in millionths, for
\* an argument given in thousandths.
ExpMicros(milli) ==
    CASE milli = 0 -> 1000000
      [] milli = 50 -> 1051271
      [] milli = 0 - 50 -> 951229
      [] milli = 100 -> 1105171
      [] milli = 0 - 100 -> 904837
      [] milli = 2500 -> 12182494
      [] milli = 0 - 2500 -> 82085
      [] milli = 5000 -> 148413159
      [] milli = 0 - 5000 -> 6738

\* Math.exp(x), to six decimals: Infinity above 709.782, 0 below -15.
MathExp(x) ==
    IF x.kind = "NaN" \/ x.kind = "Infinity" THEN x
    ELSE IF x.kind = "-Infinity" THEN Num(0, 1, 0)
    ELSE LET milli == IF x.exp10 + 3 >= 0
                      THEN (x.num * Pow10(x.exp10 + 3)) \div x.den
                      ELSE x.num \div (x.den * Pow10(0 - (x.exp10 + 3)))
         IN IF milli > 709782 THEN NonFinite("Infinity")
            ELSE IF milli < 0 - 15000 THEN Num(0, 1, 0)
            ELSE Num(ExpMicros(milli), 1, 0 - 6)

\* Whether ethers.formatEther accepts the string: a decimal integer.  It
\* throws for any other.
IsBigNumberish(str) ==
    /\ str # <<>>
    /\ \A i \in 1..Len(str) :
          \/ \E d \in 1..Len(Digits) : Digits[d] = str[i]
          \/ i = 1 /\ str[i] = "-" /\ Len(str) > 1

\* Variant of IsZero: no guard.
NeverZero(x) == FALSE

\* sy === 0
IsZero(x) == x.kind = "finite" /\ x.num = 0

\* const calculateUtilization = (totalPt: string, totalSy: string) => ...
\* with the divisions it evaluates.
calculateUtilization(totalPt, totalSy) ==
    LET pt == ToNumber(FormatEther(totalPt))
        sy == ToNumber(FormatEther(totalSy))
    IN IF IsZero(sy)
       THEN [value |-> <<"0", ".", "0", "0", "%">>, divisions |-> <<>>]
       ELSE [value |-> ToFixed(Times(Divide(pt, sy), 100), 2) \o <<"%">>,
             divisions |-> <<[dividend |-> pt, divisor |-> sy]>>]

\* const calculateYtBalance = (totalPt: string, totalSy: string) => ...
calculateYtBalance(totalPt, totalSy) ==
    LET pt == BigInt(totalPt)
        sy == BigInt(totalSy)
        yt == IF BigGreater(pt, sy) THEN BigSub(pt, sy) ELSE BigInt(<<"0">>)
    IN BigToString(yt)

\* The balances market.state.totalPt and market.state.totalSy can hold.
Amounts == (0 - 2)..MaxAmount

\* Balances are a few wei or a few whole tokens of 10^18 wei; 1000 tokens
\* is one of them.
Units == {0, EtherDecimals}
TokenAmounts == Amounts \cup {1000}

\* The decimal string of amount * 10^unit.
AmountString(amount, unit) ==
    IF amount = 0 THEN <<"0">>
    ELSE ToDecimalString(amount) \o [i \in 1..unit |-> "0"]

InitMetrics ==
    /\ ChainIdle
    /\ MainIdle
    /\ ClassifierIdle
    /\ MetricsIdle
    /\ ApiIdle
    /\ OracleIdle
    /\ ProbeIdle

\* utilizationRate: calculateUtilization(market.state.totalPt,
\*                                       market.state.totalSy)
UtilizationRate ==
    /\ metric = "none"
    /\ \E totalPt, totalSy \in Amounts :
          LET args == [totalPt |-> ToDecimalString(totalPt),
                       totalSy |-> ToDecimalString(totalSy)]
              call == calculateUtilization(args.totalPt, args.totalSy)
          IN /\ metric' = "calculateUtilization"
             /\ metricArgs' = args
             /\ metricValue' = call.value
             /\ divisions' = call.divisions
    /\ UNCHANGED <<chainVars, mainVars, classifierVars, apiVars, oracleVars,
                 probeVars>>

\* const calculateTvl = (totalSy, totalPt, totalLp, syExchangeRate) => ...
calculateTvl(totalSy, totalPt, totalLp, syExchangeRate) ==
    LET sy == BigInt(totalSy)
        pt == BigInt(totalPt)
        yt == BigInt(calculateYtBalance(totalPt, totalSy))
        lp == BigInt(totalLp)
        rate == BigInt(syExchangeRate)
        totalValue == BigDiv(BigMul(BigAdd(BigAdd(BigAdd(sy, pt), yt), lp),
                                    rate),
                             BigNorm(1, 18))
    IN FormatEther(BigToString(totalValue))

\* The balances and LP supplies calculateTvl is given, and the exchange
\* rates as <<mantissa, exponent>>: 0, 3 wei, 1.05, 1.5 and 1 times 10^18.
TvlAmounts == {0 - 2, 0, 1, 7, 1000}
LpAmounts == {0, 3}
ExchangeRates == {<<0, 0>>, <<3, 0>>, <<105, 16>>, <<15, 17>>, <<1, 18>>}

\* const calculateTokenPrices = (syExchangeRate, lastLnImpliedRate) => ...
\* inside formatMarketData(market, provider).
calculateTokenPrices(market, syExchangeRate, lastLnImpliedRate) ==
    IF ~IsBigNumberish(lastLnImpliedRate)
    THEN [pt |-> <<"N", "/", "A">>, yt |-> <<"N", "/", "A">>]
    ELSE LET rateNumber == ToNumber(FormatEther(lastLnImpliedRate))
             timeToExpiry ==
                 Divide(NumSub(Num(market.state.expiry, 1, 0),
                               Num(market.timestamp, 1, 0)),
                        Num(365 * 24 * 60 * 60, 1, 0))
             discountFactor ==
                 MathExp(NumMul(Times(rateNumber, 0 - 1), timeToExpiry))
             ptPrice == discountFactor
             ytPrice == NumSub(Num(1, 1, 0), ptPrice)
         IN [pt |-> <<"$">> \o ToFixed(ptPrice, 4),
             yt |-> <<"$">> \o ToFixed(ytPrice, 4)]

\* The values market.state.lastLnImpliedRate holds: 0, 0.05, 2.5 and 800
\* times 10^18, and a string that is no number.
LnRates == {<<"0">>, AmountString(5, 16), AmountString(25, 17),
            AmountString(8, 20), <<"N", "/", "A">>}

\* Snapshots taken at 1700000000: a year after expiry, at expiry, and one
\* and two years before it.
Snapshots ==
    {[state |-> [expiry |-> 1700000000 + years * (365 * 24 * 60 * 60)],
      timestamp |-> 1700000000] : years \in (0 - 1)..2}

\* const calculateImpliedApy = (lnRate: string) => ...
calculateImpliedApy(lnRate) ==
    LET rateNumber == ToNumber(FormatEther(lnRate))
    IN ToFixed(Times(NumSub(MathExp(rateNumber), Num(1, 1, 0)), 100), 2)
       \o <<"%">>

\* Variant of calculateFeeAdjustedApy: the fee is not taken off.
FeeIgnored(lnRate, reserveFeePercent) == calculateImpliedApy(lnRate)

\* const calculateFeeAdjustedApy = (lnRate, reserveFeePercent) => ...
calculateFeeAdjustedApy(lnRate, reserveFeePercent) ==
    LET rateNumber == ToNumber(FormatEther(lnRate))
        apy == NumSub(MathExp(rateNumber), Num(1, 1, 0))
        feeAdjustedApy ==
            NumMul(apy, NumSub(Num(1, 1, 0),
                               Divide(Num(reserveFeePercent, 1, 0),
                                      Num(100, 1, 0))))
    IN ToFixed(Times(feeAdjustedApy, 100), 2) \o <<"%">>

\* const calculateYtYield = (lnImpliedRate: string) => ...
calculateYtYield(lnImpliedRate) ==
    IF ~IsBigNumberish(lnImpliedRate) THEN <<"N", "/", "A">>
    ELSE LET rateNumber == ToNumber(FormatEther(lnImpliedRate))
             ytYield == NumSub(MathExp(rateNumber), Num(1, 1, 0))
         IN IF rateNumber.kind # "finite" THEN <<"N", "/", "A">>
            ELSE IF \/ ytYield.kind # "finite"
                    \/ Sign(NumSub(ytYield, Num(0 - 1, 1, 0))) < 0
                    \/ Sign(NumSub(ytYield, Num(10, 1, 0))) > 0
            THEN <<"N", "/", "A">>
            ELSE ToFixed(Times(ytYield, 100), 2) \o <<"%">>

\* The values market.state.reserveFeePercent holds.
ReserveFees == {0, 10, 100}

\* Variant of calculateMaturityProgress: the share of the time remaining.
RemainingShare(creation, expiry, current) ==
    ToFixed(Times(Divide(Num(expiry - current, 1, 0),
                         Num(expiry - creation, 1, 0)), 100), 2) \o <<"%">>

\* const calculateMaturityProgress = (creation, expiry, current) => ...
\* !creation holds for undefined and for 0.
calculateMaturityProgress(creation, expiry, current) ==
    IF creation = NoBlock \/ creation = 0
    THEN <<"U", "n", "k", "n", "o", "w", "n">>
    ELSE LET total == expiry - creation
             elapsed == current - creation
         IN IF total <= 0 THEN <<"1", "0", "0", ".", "0", "0", "%">>
            ELSE ToFixed(Times(Divide(Num(elapsed, 1, 0), Num(total, 1, 0)),
                               100), 2) \o <<"%">>

\* maturityProgress: market.creationBlock
\*   ? calculateMaturityProgress(market.creationBlock, market.state.expiry,
\*                               market.timestamp)
\*   : "Unknown"
maturityProgress(market) ==
    IF market.creationBlock = NoBlock \/ market.creationBlock = 0
    THEN <<"U", "n", "k", "n", "o", "w", "n">>
    ELSE calculateMaturityProgress(market.creationBlock, market.state.expiry,
                                   market.timestamp)

\* Markets created at time 100: in a block numbered 7 or 150, or with no
\* creation event found; expiring at 5, 100, 200 or 300.  creationTimestamp
\* stays undefined when the data of the creation block could not be read.
CreatedMarkets ==
    {[creationBlock |-> b, creationTimestamp |-> t, state |-> [expiry |-> e]] :
        b \in {NoBlock, 7, 150}, t \in {NoBlock, 100},
        e \in {5, 100, 200, 300}}
    \ {[creationBlock |-> NoBlock, creationTimestamp |-> 100,
         state |-> [expiry |-> e]] : e \in {5, 100, 200, 300}}

\* The times at which a snapshot of them is taken.
SnapshotTimes == {50 * k : k \in 1..7}

\* const ytBalance = calculateYtBalance(market.state.totalPt,
\*                                       market.state.totalSy)
YtBalance ==
    /\ metric = "none"
    /\ \E unit \in Units : \E totalPt, totalSy \in TokenAmounts :
          LET args == [totalPt |-> AmountString(totalPt, unit),
                       totalSy |-> AmountString(totalSy, unit)]
          IN /\ metric' = "calculateYtBalance"
             /\ metricArgs' = args
             /\ metricValue' = calculateYtBalance(args.totalPt, args.totalSy)
             /\ divisions' = <<>>
    /\ UNCHANGED <<chainVars, mainVars, classifierVars, apiVars, oracleVars,
                 probeVars>>

\* tvl: calculateTvl(market.state.totalSy, market.state.totalPt,
\*                   market.state.totalLp, market.syExchangeRate)
Tvl ==
    /\ metric = "none"
    /\ \E unit \in Units : \E totalSy, totalPt \in TvlAmounts :
       \E totalLp \in LpAmounts : \E rate \in ExchangeRates :
          LET args == [totalSy |-> AmountString(totalSy, unit),
                       totalPt |-> AmountString(totalPt, unit),
                       totalLp |-> AmountString(totalLp, unit),
                       syExchangeRate |-> AmountString(rate[1], rate[2])]
          IN /\ metric' = "calculateTvl"
             /\ metricArgs' = args
             /\ metricValue' = calculateTvl(args.totalSy, args.totalPt,
                                            args.totalLp, args.syExchangeRate)
             /\ divisions' = <<>>
    /\ UNCHANGED <<chainVars, mainVars, classifierVars, apiVars, oracleVars,
                 probeVars>>

\* const tokenPrices = calculateTokenPrices(market.syExchangeRate,
\*                                           market.state.lastLnImpliedRate)
TokenPrices ==
    /\ metric = "none"
    /\ \E market \in Snapshots : \E rate \in ExchangeRates :
       \E lnRate \in LnRates :
          /\ metric' = "calculateTokenPrices"
          /\ metricArgs' = [market |-> market,
                            syExchangeRate |-> AmountString(rate[1], rate[2]),
                            lastLnImpliedRate |-> lnRate]
          /\ metricValue' =
                 calculateTokenPrices(market, AmountString(rate[1], rate[2]),
                                      lnRate)
          /\ divisions' = <<>>
    /\ UNCHANGED <<chainVars, mainVars, classifierVars, apiVars, oracleVars,
                 probeVars>>

\* metrics: { impliedApy: calculateImpliedApy(...), feeAdjustedApy:
\* calculateFeeAdjustedApy(...), ytYieldRate: calculateYtYield(...) }, for a
\* rate that getMarketDetails wrote as a decimal string.
YieldMetrics ==
    /\ metric = "none"
    /\ \E lnRate \in {r \in LnRates : IsBigNumberish(r)} :
       \E reserveFeePercent \in ReserveFees :
          /\ metric' = "yieldMetrics"
          /\ metricArgs' = [lastLnImpliedRate |-> lnRate,
                            reserveFeePercent |-> reserveFeePercent]
          /\ metricValue' =
                 [impliedApy |-> calculateImpliedApy(lnRate),
                  feeAdjustedApy |->
                      calculateFeeAdjustedApy(lnRate, reserveFeePercent),
                  ytYieldRate |-> calculateYtYield(lnRate)]
          /\ divisions' = <<>>
    /\ UNCHANGED <<chainVars, mainVars, classifierVars, apiVars, oracleVars,
                 probeVars>>

\* Variant of liquidity: the SY balance alone.
LiquidityOfSy(market) ==
    FormatEther(BigToString(
        BigDiv(BigMul(BigInt(market.state.totalSy),
                      BigInt(market.syExchangeRate)),
               BigNorm(1, 18))))

\* liquidity: ethers.formatEther(
\*   ((BigInt(market.state.totalSy) + BigInt(market.state.totalPt)) *
\*     BigInt(market.syExchangeRate)) / BigInt(1e18))
liquidity(market) ==
    FormatEther(BigToString(
        BigDiv(BigMul(BigAdd(BigInt(market.state.totalSy),
                             BigInt(market.state.totalPt)),
                      BigInt(market.syExchangeRate)),
               BigNorm(1, 18))))

\* formatMarketData(market, provider).metrics.liquidity and .tvl, as the
\* ether amounts handed to Number().
LiquidityAndTvl ==
    /\ metric = "none"
    /\ \E unit \in Units : \E totalSy, totalPt \in TvlAmounts :
       \E totalLp \in LpAmounts : \E rate \in ExchangeRates :
          LET market == [state |-> [totalSy |-> AmountString(totalSy, unit),
                                    totalPt |-> AmountString(totalPt, unit),
                                    totalLp |-> AmountString(totalLp, unit)],
                         syExchangeRate |-> AmountString(rate[1], rate[2])]
          IN /\ metric' = "liquidity"
             /\ metricArgs' = market
             /\ metricValue' =
                    [liquidity |-> liquidity(market),
                     tvl |-> calculateTvl(market.state.totalSy,
                                          market.state.totalPt,
                                          market.state.totalLp,
                                          market.syExchangeRate)]
             /\ divisions' = <<>>
    /\ UNCHANGED <<chainVars, mainVars, classifierVars, apiVars, oracleVars,
                 probeVars>>

\* const calculateRewardApr = (rates: string[], symbols: string[]) => ...
\* The result is the string "N/A" or an object { total, breakdown }; it is
\* held with its typeof.  formatEther throws on rates[i] when it is undefined
\* or no number, and the catch block returns "N/A".
calculateRewardApr(rates, symbols) ==
    LET notAvailable == [typeof |-> "string", value |-> <<"N", "/", "A">>]
        annual(i) == Times(Times(Times(Times(ToNumber(FormatEther(rates[i])),
                                             365), 24), 60), 60)
    IN IF Len(rates) = 0 THEN notAvailable
       ELSE IF ~IsBigNumberish(rates[1]) THEN notAvailable
       ELSE IF \/ annual(1).kind # "finite"
               \/ Sign(annual(1)) < 0
               \/ Sign(NumSub(annual(1), Num(1000, 1, 0))) > 0
       THEN notAvailable
       ELSE IF \E i \in 1..Len(symbols) :
                   i > Len(rates) \/ ~IsBigNumberish(rates[i])
       THEN notAvailable
       ELSE [typeof |-> "object",
             value |->
                 [total |-> ToFixed(annual(1), 2) \o <<"%">>,
                  breakdown |->
                      [i \in 1..Len(symbols) |->
                          symbols[i] \o <<":", " ">>
                          \o ToFixed(annual(i), 2) \o <<"%">>]]]

\* Reward rates per second, in wei: 0, 1e-8, 1e-6 and 1e-4 ether, and a text
\* that is no number.
RewardRates == {<<"0">>, AmountString(1, 10), AmountString(1, 12),
                AmountString(1, 14), <<"N", "/", "A">>}

\* calculateRewardApr(rates, symbols) on the syRewards lists of a market.
RewardApr ==
    /\ metric = "none"
    /\ \E rates \in SeqsUpTo(RewardRates, MaxRewardTokens) :
       \E tokens \in RewardTokenLists :
          LET symbols == [i \in 1..Len(tokens) |-> RewardSymbolOf(tokens[i])]
          IN /\ metric' = "calculateRewardApr"
             /\ metricArgs' = [rates |-> rates, symbols |-> symbols]
             /\ metricValue' = calculateRewardApr(rates, symbols)
             /\ divisions' = <<>>
    /\ UNCHANGED <<chainVars, mainVars, classifierVars, apiVars, oracleVars,
                 probeVars>>

\* formatMarketData(market, provider).metrics.maturityProgress
MaturityProgress ==
    /\ metric = "none"
    /\ \E created \in CreatedMarkets : \E timestamp \in SnapshotTimes :
          LET market == [timestamp |-> timestamp] @@ created
          IN /\ metric' = "maturityProgress"
             /\ metricArgs' = [market |-> market, earlier |-> <<>>]
             /\ metricValue' = maturityProgress(market)
             /\ divisions' = <<>>
    /\ UNCHANGED <<chainVars, mainVars, classifierVars, apiVars, oracleVars,
                 probeVars>>

\* formatMarketData for a later snapshot of the same market; the earlier
\* snapshot and its maturityProgress are kept for comparison.
MaturityProgressLater ==
    /\ metric = "maturityProgress"
    /\ metricArgs.earlier = <<>>
    /\ \E timestamp \in SnapshotTimes :
          LET market == [metricArgs.market EXCEPT !.timestamp = timestamp]
          IN /\ timestamp >= metricArgs.market.timestamp
             /\ metricArgs' = [market |-> market,
                               earlier |-> <<[market |-> metricArgs.market,
                                              value |-> metricValue]>>]
             /\ metricValue' = maturityProgress(market)
    /\ UNCHANGED <<metric, divisions>>
    /\ UNCHANGED <<chainVars, mainVars, classifierVars, apiVars, oracleVars,
                 probeVars>>

NextMetrics ==
    \/ UtilizationRate
    \/ YtBalance
    \/ Tvl
    \/ TokenPrices
    \/ YieldMetrics
    \/ MaturityProgress
    \/ MaturityProgressLater
    \/ RewardApr
    \/ LiquidityAndTvl

SpecMetrics == InitMetrics /\ [][NextMetrics]_vars

(***************************************************************************)
(* fetchAllMarketData: one API request per listed market, all in flight    *)
(* at once, answered in any order.                                         *)
(***************************************************************************)
\* Addresses of the markets of data/active-markets.json.
ApiAddresses == {"0xa", "0xb", "0xc"}

\* activeMarkets.data.markets: one entry per market.
ActiveMarketLists ==
    {[i \in 1..Len(addresses) |->
         [address |-> addresses[i], name |-> <<"PT", addresses[i]>>,
          expiry |-> <<"expiry", addresses[i]>>]] :
        addresses \in
            {list \in SeqsUpTo(ApiAddresses, MaxBatch) :
                \A i, j \in 1..Len(list) : i # j => list[i] # list[j]}}

\* A promise not settled yet, and null.
Pending == [address |-> "pending", name |-> <<>>, expiry |-> <<>>]
Null == [address |-> "null", name |-> <<>>, expiry |-> <<>>]

\* fetchMarketData(address, expiry): { address, name: "", expiry,
\* ...response.data }, or null when axios.get rejected.
fetchMarketData(address, expiry, response) ==
    IF response = "rejected" THEN Null
    ELSE [address |-> address, name |-> <<>>, expiry |-> expiry]

\* Variant of ValidResults: nothing filtered out.
AllResults(results) == results

\* results.filter((result) => result !== null)
ValidResults(results) == SelectSeq(results, LAMBDA result : result # Null)

InitBatch ==
    /\ ChainIdle
    /\ MainIdle
    /\ ClassifierIdle
    /\ MetricsIdle
    /\ OracleIdle
    /\ ProbeIdle
    /\ CompareIdle
    /\ batchPc = "readFile"
    /\ activeMarkets = <<>>
    /\ promises = <<>>
    /\ requests = <<>>
    /\ output = NoOutput

\* const activeMarkets = JSON.parse(await fs.readFile(...));
\* const marketDataPromises = activeMarkets.data.markets.map(async ...):
\* every callback runs up to its await, so every request is issued here.
ReadActiveMarkets ==
    /\ batchPc = "readFile"
    /\ \/ \E listed \in ActiveMarketLists :
            /\ activeMarkets' = listed
            /\ promises' = [i \in 1..Len(listed) |-> Pending]
            /\ requests' = [i \in 1..Len(listed) |-> 1]
            /\ batchPc' = "promiseAll"
       \/ /\ batchPc' = "threw readFile"
          /\ UNCHANGED <<activeMarkets, promises, requests>>
    /\ output' = output
    /\ UNCHANGED <<chainVars, mainVars, classifierVars, metricVars, oracleVars,
                 compareVars, probeVars>>

\* axios.get of one market settles, and its callback goes on:
\* if (data) { data.name = market.name; return formatMarketData(data); }
\* return null;
Respond ==
    /\ batchPc = "promiseAll"
    /\ \E i \in 1..Len(promises) : \E response \in {"data", "rejected"} :
          LET market == activeMarkets[i]
              data == fetchMarketData(market.address, market.expiry, response)
          IN /\ promises[i] = Pending
             /\ promises' =
                    [promises EXCEPT
                        ![i] = IF data # Null
                               THEN [data EXCEPT !.name = market.name]
                               ELSE Null]
    /\ UNCHANGED <<batchPc, activeMarkets, requests, output>>
    /\ UNCHANGED <<chainVars, mainVars, classifierVars, metricVars, oracleVars,
                 compareVars, probeVars>>

\* const results = await Promise.all(marketDataPromises);
\* const validResults = results.filter(...); const output = {...};
PromiseAll ==
    /\ batchPc = "promiseAll"
    /\ \A i \in 1..Len(promises) : promises[i] # Pending
    /\ output' = [totalMarkets |-> Len(ValidResults(promises)),
                  markets |-> ValidResults(promises)]
    /\ batchPc' = "writeFile"
    /\ UNCHANGED <<activeMarkets, promises, requests>>
    /\ UNCHANGED <<chainVars, mainVars, classifierVars, metricVars, oracleVars,
                 compareVars, probeVars>>

\* await ensureDirectoryExists(OUTPUT_DIR);
\* await fs.writeFile(OUTPUT_FILE, JSON.stringify(output, null, 2));
WriteOutput ==
    /\ batchPc = "writeFile"
    /\ batchPc' \in {"done", "threw writeFile"}
    /\ UNCHANGED <<activeMarkets, promises, requests, output>>
    /\ UNCHANGED <<chainVars, mainVars, classifierVars, metricVars, oracleVars,
                 compareVars, probeVars>>

NextBatch ==
    \/ ReadActiveMarkets
    \/ Respond
    \/ PromiseAll
    \/ WriteOutput

SpecBatch == InitBatch /\ [][NextBatch]_vars

(***************************************************************************)
(* getNumberOfMarkets: allMarkets(0), allMarkets(1), ... until a call      *)
(* fails.                                                                  *)
(***************************************************************************)
InitProbe ==
    /\ ChainIdle
    /\ MainIdle
    /\ ClassifierIdle
    /\ MetricsIdle
    /\ ApiIdle
    /\ OracleIdle
    /\ factoryMarkets \in 0..MaxFactoryMarkets
    /\ marketIndex = 0
    /\ probes = <<>>
    /\ numMarkets = NoBlock

\* How marketFactory.allMarkets(index) can end: with an address or a failed
\* read below the market count, with a revert or a failed read from it on.
ProbeOutcomes(index) ==
    IF index < factoryMarkets THEN {"address", "read failed"}
    ELSE {"out of range", "read failed"}

\* Variant of AllMarkets: the failed index is counted too.
AllMarketsCountingFailure ==
    /\ numMarkets = NoBlock
    /\ \E ended \in ProbeOutcomes(marketIndex) :
          /\ probes' = Append(probes, [index |-> marketIndex, ended |-> ended])
          /\ marketIndex' = marketIndex + 1
          /\ numMarkets' = IF ended = "address" THEN numMarkets
                           ELSE marketIndex + 1
    /\ UNCHANGED factoryMarkets
    /\ UNCHANGED <<chainVars, mainVars, classifierVars, metricVars, apiVars,
                   oracleVars>>

\* try { await marketFactory.allMarkets(marketIndex); marketIndex++; }
\* catch (error) { break; }  ...  return marketIndex;
AllMarkets ==
    /\ numMarkets = NoBlock
    /\ \E ended \in ProbeOutcomes(marketIndex) :
          /\ probes' = Append(probes, [index |-> marketIndex, ended |-> ended])
          /\ IF ended = "address"
             THEN /\ marketIndex' = marketIndex + 1
                  /\ UNCHANGED numMarkets
             ELSE /\ numMarkets' = marketIndex
                  /\ UNCHANGED marketIndex
    /\ UNCHANGED factoryMarkets
    /\ UNCHANGED <<chainVars, mainVars, classifierVars, metricVars, apiVars,
                   oracleVars>>

NextProbe == AllMarkets

\* Every awaited call settles.
SpecProbe == InitProbe /\ [][NextProbe]_vars /\ WF_vars(AllMarkets)

(***************************************************************************)
(* compare-market-data: the on-chain market list against the API's.        *)
(***************************************************************************)
HexDigits == <<"0", "1", "2", "3", "4", "5", "6", "7", "8", "9",
               "a", "b", "c", "d", "e", "f">>

\* The text matches /^(0x)?[0-9a-fA-F]{40}$/, with AddressDigits for 40.
IsAddress(str) ==
    LET digits == IF Len(str) >= 2 /\ str[1] = "0" /\ str[2] = "x"
                  THEN SubSeq(str, 3, Len(str)) ELSE str
    IN /\ Len(digits) = AddressDigits
       /\ \A i \in 1..Len(digits) :
              LetterIndex(HexDigits, ToLowerCase(digits)[i]) # 0

\* The value getAddress throws for a text that is no address.
InvalidAddress == <<"invalid address">>

\* ethers.getAddress(address): the address with its checksum casing, the
\* hex letter at place i in upper case when nibble i of the hash of the
\* lower-case digits is 8 or more.  The hash is stood in for by a fixed
\* function of the lower-case digits.
getAddress(str) ==
    IF ~IsAddress(str) THEN InvalidAddress
    ELSE LET digits == ToLowerCase(IF str[2] = "x" THEN SubSeq(str, 3, Len(str))
                                   ELSE str)
             value(i) == LetterIndex(HexDigits, digits[i]) - 1
             sum[i \in 0..Len(digits)] ==
                 IF i = 0 THEN 0 ELSE sum[i - 1] + i * value(i)
             nibble(i) == (7 * i + sum[Len(digits)]) % 16
         IN <<"0", "x">> \o
            [i \in 1..Len(digits) |->
                IF nibble(i) >= 8 THEN ToUpperCase(digits)[i] ELSE digits[i]]

RECURSIVE RemoveChainPrefix(_)
\* String.prototype.replace("1-", ""): the first "1-" of the text removed.
RemoveChainPrefix(str) ==
    IF Len(str) < 2 THEN str
    ELSE IF str[1] = "1" /\ str[2] = "-" THEN SubSeq(str, 3, Len(str))
    ELSE <<str[1]>> \o RemoveChainPrefix(Tail(str))

\* Variant of normalizeAddress: the chain prefix is kept.
NormalizeWithPrefix(address) == getAddress(ToLowerCase(address))

\* function normalizeAddress(address: string): string
normalizeAddress(address) == getAddress(RemoveChainPrefix(ToLowerCase(address)))

\* Two markets, by their lower-case address.
ComparedAddresses ==
    {<<"0", "x">> \o [i \in 1..AddressDigits |-> HexDigits[((10 + i) % 16) + 1]],
     <<"0", "x">> \o [i \in 1..AddressDigits |-> HexDigits[((5 * i) % 16) + 1]]}

\* The ways the files spell an address.  The first market: lower case, hex
\* letters in upper case, with the chain prefix of mainnet.  The second:
\* lower case, with the prefix of chain 31.
Spellings ==
    LET first == <<"0", "x">> \o
                 [i \in 1..AddressDigits |-> HexDigits[((10 + i) % 16) + 1]]
        second == <<"0", "x">> \o
                  [i \in 1..AddressDigits |-> HexDigits[((5 * i) % 16) + 1]]
    IN {first, <<"0", "x">> \o ToUpperCase(SubSeq(first, 3, Len(first))),
        <<"1", "-">> \o first, second, <<"3", "1", "-">> \o second}

ComparedLists ==
    {[i \in 1..Len(list) |-> [address |-> list[i]]] :
        list \in SeqsUpTo(Spellings, MaxCompared)}

InitCompare ==
    /\ ChainIdle
    /\ MainIdle
    /\ ClassifierIdle
    /\ MetricsIdle
    /\ BatchIdle
    /\ OracleIdle
    /\ ProbeIdle
    /\ CompareIdle

\* async function main(): both files read, the three filters, and
\* comparisonData written.  An address getAddress rejects makes main throw.
CompareMain ==
    /\ comparisonData = NoComparison
    /\ \E onchain \in ComparedLists : \E api \in ComparedLists :
          LET onchainAddresses ==
                  {normalizeAddress(onchain[i].address) : i \in 1..Len(onchain)}
              apiAddresses ==
                  {normalizeAddress(api[i].address) : i \in 1..Len(api)}
              onlyInOnchain ==
                  SelectSeq(onchain, LAMBDA m :
                      normalizeAddress(m.address) \notin apiAddresses)
              onlyInApi ==
                  SelectSeq(api, LAMBDA m :
                      normalizeAddress(m.address) \notin onchainAddresses)
              inBoth ==
                  SelectSeq(onchain, LAMBDA m :
                      normalizeAddress(m.address) \in apiAddresses)
          IN /\ onchainData' = onchain
             /\ apiData' = api
             /\ comparisonData' =
                    IF InvalidAddress \in onchainAddresses \cup apiAddresses
                    THEN [NoComparison EXCEPT !.threw = TRUE]
                    ELSE [summary |->
                              [totalOnchain |-> Len(onchain),
                               totalApi |-> Len(api),
                               inBoth |-> Len(inBoth),
                               onlyOnchain |-> Len(onlyInOnchain),
                               onlyApi |-> Len(onlyInApi)],
                          details |->
                              [marketsOnlyInOnchain |-> onlyInOnchain,
                               marketsOnlyInApi |-> onlyInApi],
                          threw |-> FALSE]
    /\ UNCHANGED <<chainVars, mainVars, classifierVars, metricVars, batchVars,
                   oracleVars, probeVars>>

NextCompare == CompareMain

SpecCompare == InitCompare /\ [][NextCompare]_vars

(***************************************************************************)
(* PendleSparkLinearDiscountOracle.  A uint256 is held as the sequence of  *)
(* its decimal digits, most significant first and 0 as the empty sequence, *)
(* so that products of the size of 10^26 are exact; solidity ^0.8 reverts  *)
(* on overflow and underflow.                                              *)
(***************************************************************************)
RECURSIVE Uint(_)
\* The uint256 of a number.
Uint(n) == IF n = 0 THEN <<>> ELSE Append(Uint(n \div 10), n % 10)

\* The uint256 m * 10^e.
UintE(m, e) == IF m = 0 THEN <<>> ELSE Uint(m) \o [i \in 1..e |-> 0]

\* type(uint256).max
MaxUint256 ==
    <<1, 1, 5, 7, 9, 2, 0, 8, 9, 2, 3, 7, 3, 1, 6, 1, 9, 5, 4, 2, 3, 5, 7, 0,
      9, 8, 5, 0, 0, 8, 6, 8, 7, 9, 0, 7, 8, 5, 3, 2, 6, 9, 9, 8, 4, 6, 6, 5,
      6, 4, 0, 5, 6, 4, 0, 3, 9, 4, 5, 7, 5, 8, 4, 0, 0, 7, 9, 1, 3, 1, 2, 9,
      6, 3, 9, 9, 3, 5>>

\* The digits from the first one that is not 0 on.
WithoutLeadingZeros(digits) ==
    IF \A i \in 1..Len(digits) : digits[i] = 0 THEN <<>>
    ELSE LET first == CHOOSE i \in 1..Len(digits) :
                          /\ digits[i] # 0
                          /\ \A j \in 1..(i - 1) : digits[j] = 0
         IN SubSeq(digits, first, Len(digits))

\* a < b: the shorter number, or the one with the smaller digit where two
\* of one length first differ.
UintLess(a, b) ==
    IF Len(a) # Len(b) THEN Len(a) < Len(b)
    ELSE \E i \in 1..Len(a) :
            /\ a[i] < b[i]
            /\ \A j \in 1..(i - 1) : a[j] = b[j]

\* The three operations below go through the digits half by half, handing
\* the carry, remainder or borrow of one half to the other, so that the
\* evaluation nests only as deep as the logarithm of the length.
\* The digits from the units up, for the operations that carry upwards.
UnitsFirst(digits) ==
    [i \in 1..Len(digits) |-> digits[Len(digits) + 1 - i]]

RECURSIVE MulCarry(_, _, _)
\* digits * k + carry, digits from the units up: the digits of the places
\* of `digits`, and the carry out of them.
MulCarry(digits, k, carry) ==
    IF digits = <<>> THEN [digits |-> <<>>, carry |-> carry]
    ELSE IF Len(digits) = 1
    THEN LET x == digits[1] * k + carry
         IN [digits |-> <<x % 10>>, carry |-> x \div 10]
    ELSE LET half == Len(digits) \div 2
             low == MulCarry(SubSeq(digits, 1, half), k, carry)
             high == MulCarry(SubSeq(digits, half + 1, Len(digits)), k,
                              low.carry)
         IN [digits |-> low.digits \o high.digits, carry |-> high.carry]

\* a * k, k a number below 2^27.
UintMul(a, k) ==
    LET product == MulCarry(UnitsFirst(a), k, 0)
    IN WithoutLeadingZeros(Uint(product.carry)
                               \o UnitsFirst(product.digits))

RECURSIVE DivStep(_, _, _)
\* (remainder * 10^Len(digits) + digits) / k: the digits of the quotient
\* and the remainder left.
DivStep(digits, k, remainder) ==
    IF digits = <<>> THEN [digits |-> <<>>, remainder |-> remainder]
    ELSE IF Len(digits) = 1
    THEN LET x == remainder * 10 + digits[1]
         IN [digits |-> <<x \div k>>, remainder |-> x % k]
    ELSE LET half == Len(digits) \div 2
             high == DivStep(SubSeq(digits, 1, half), k, remainder)
             low == DivStep(SubSeq(digits, half + 1, Len(digits)), k,
                            high.remainder)
         IN [digits |-> high.digits \o low.digits,
             remainder |-> low.remainder]

\* a / k, k a number below 2^27: the quotient rounded down.
UintDiv(a, k) == WithoutLeadingZeros(DivStep(a, k, 0).digits)

\* The borrow into place i of a - b for two sequences of one length: 1
\* when the places below i hold less in a than in b.
SubBorrow(a, b, i) ==
    IF \E j \in (i + 1)..Len(a) :
          /\ a[j] < b[j]
          /\ \A l \in (i + 1)..(j - 1) : a[l] = b[l]
    THEN 1 ELSE 0

\* a - b for b <= a.
UintSub(a, b) ==
    LET padded == [i \in 1..(Len(a) - Len(b)) |-> 0] \o b
    IN WithoutLeadingZeros(
           [i \in 1..Len(a) |->
               (a[i] + 10 - padded[i] - SubBorrow(a, padded, i)) % 10])

\* Variant of getDiscount: a year's discount whatever the time left.
FlatDiscount(deployed, timeLeft) ==
    [reverted |-> FALSE, value |-> deployed.baseDiscountPerYear]

\* function getDiscount(uint256 timeLeft) public view returns (uint256):
\* (timeLeft * baseDiscountPerYear) / SECONDS_PER_YEAR
getDiscount(deployed, timeLeft) ==
    LET product == UintMul(deployed.baseDiscountPerYear, timeLeft)
    IN IF UintLess(MaxUint256, product)
       THEN [reverted |-> TRUE, value |-> <<>>]
       ELSE [reverted |-> FALSE, value |-> UintDiv(product, SECONDS_PER_YEAR)]

\* function latestRoundData() external view: its answer, or a revert.
latestRoundData(deployed, timestamp) ==
    LET timeLeft == IF deployed.maturity > timestamp
                    THEN deployed.maturity - timestamp ELSE 0
        discount == getDiscount(deployed, timeLeft)
    IN IF discount.reverted \/ UintLess(UintE(1, 18), discount.value)
       THEN [timestamp |-> timestamp, reverted |-> TRUE, answer |-> <<>>]
       ELSE [timestamp |-> timestamp, reverted |-> FALSE,
             answer |-> UintSub(UintE(1, 18), discount.value)]

\* A quarter of a year, in seconds.
Quarter == SECONDS_PER_YEAR \div 4

\* PTExpiry(PT).expiry(): half a year and a year and a half after
\* OracleStart, the second one second past.
Maturities == {OracleStart + 2 * Quarter, OracleStart + 6 * Quarter + 1}

\* _baseDiscountPerYear: 0, 5%, 12.3456789012345678%, 100%, and 100% + 1 wei.
Discounts == {<<>>, UintE(5, 16),
              Uint(123456789) \o <<0>> \o Uint(12345678),
              UintE(1, 18), Uint(1) \o [i \in 1..17 |-> 0] \o <<1>>}

\* The block timestamps at which the oracle is looked at.
OracleTimes ==
    {OracleStart + k * Quarter + j : k \in 0..MaxQuarters, j \in {0, 1}}

InitOracle ==
    /\ ChainIdle
    /\ MainIdle
    /\ ClassifierIdle
    /\ MetricsIdle
    /\ ApiIdle
    /\ OracleIdle
    /\ ProbeIdle

\* constructor(address _pt, uint256 _baseDiscountPerYear)
Constructor ==
    /\ oracle = NotDeployed
    /\ \E maturity \in Maturities : \E discount \in Discounts :
          /\ ~UintLess(UintE(1, 18), discount)
          /\ oracle' = [maturity |-> maturity,
                        baseDiscountPerYear |-> discount]
    /\ UNCHANGED <<blockTimestamp, roundData, previousRoundData>>
    /\ UNCHANGED <<chainVars, mainVars, classifierVars, metricVars, apiVars,
                 probeVars>>

\* The chain produces a block with a later timestamp.
Mine ==
    /\ \E timestamp \in OracleTimes :
          /\ timestamp > blockTimestamp
          /\ blockTimestamp' = timestamp
    /\ UNCHANGED <<oracle, roundData, previousRoundData>>
    /\ UNCHANGED <<chainVars, mainVars, classifierVars, metricVars, apiVars,
                 probeVars>>

\* A call of latestRoundData() in the latest block.
LatestRoundData ==
    /\ oracle # NotDeployed
    /\ roundData' = latestRoundData(oracle, blockTimestamp)
    /\ previousRoundData' = roundData
    /\ UNCHANGED <<oracle, blockTimestamp>>
    /\ UNCHANGED <<chainVars, mainVars, classifierVars, metricVars, apiVars,
                 probeVars>>

NextOracle ==
    \/ Constructor
    \/ Mine
    \/ LatestRoundData

SpecOracle == InitOracle /\ [][NextOracle]_vars

(***************************************************************************)
(* Properties of findValidNonExpiredMarkets.                               *)
(***************************************************************************)
Discovering == fn = "findValidNonExpiredMarkets"

\* The records the call holds: the list it returned, validMarkets before.
Records == IF outcome = "returned" THEN returned ELSE validMarkets

Addresses(records) == [i \in 1..Len(records) |-> records[i].address]

\* The markets of the events that have args, in event order.
RECURSIVE EventMarkets(_)
EventMarkets(evts) ==
    IF evts = <<>> THEN <<>>
    ELSE IF Head(evts) = <<>> THEN EventMarkets(Tail(evts))
    ELSE <<Head(evts)[1]>> \o EventMarkets(Tail(evts))

\* C1: every record of the result belongs to a market whose isValidMarket
\* call answered true during this call, and a market whose validity check
\* answered false is never in the result.
C1_OnlyValidMarkets ==
    Discovering =>
        /\ \A i \in 1..Len(Records) :
               answers[Records[i].address].isValid = "true"
        /\ \A m \in Markets :
               answers[m].isValid = "false" =>
                   \A i \in 1..Len(Records) : Records[i].address # m

\* C1 witness: a list with a record is returned in a call in which the
\* validity check of another market answered false.
C1_Witness ==
    /\ Discovering
    /\ outcome = "returned"
    /\ Len(returned) >= 1
    /\ \E m \in Markets : answers[m].isValid = "false"

\* C2: every record carries the timestamp of the block read at the start of
\* the call, and its expiry is strictly greater than that timestamp, however
\* the chain head advanced between the reads.
C2_NotExpiredAtCurrentTimestamp ==
    Discovering =>
        \A i \in 1..Len(Records) :
            /\ Records[i].timestamp = TimestampOf(currentBlock)
            /\ Records[i].timestamp = currentTimestamp
            /\ Records[i].expiry > Records[i].timestamp

\* C2 witness: a returned record of a market that has expired by the time
\* the call returns, the head having advanced after its isExpired call.
C2_Witness ==
    /\ Discovering
    /\ outcome = "returned"
    /\ \E i \in 1..Len(returned) :
           /\ returned[i].expiry <= TimestampOf(head)
           /\ head > currentBlock

\* C3: a failing read of the try block (token addresses, a symbol, the
\* state, the LP supply) never makes the call fail, and the returned list
\* holds, in event order, exactly the markets that passed both checks and
\* had no failing read.
C3_DetailFailureIsolated ==
    Discovering =>
        /\ outcome = "threw" => thrownBy \notin DetailReads
        /\ outcome = "returned" =>
               Addresses(returned) =
                   SelectSeq(EventMarkets(events),
                             LAMBDA m : /\ answers[m].isValid = "true"
                                        /\ answers[m].isExpired = "false"
                                        /\ answers[m].details # "rejected")

\* C3 witness: two markets passed both checks, a read failed for exactly one
\* of them, and the call returned the record of the other.
C3_Witness ==
    /\ Discovering
    /\ outcome = "returned"
    /\ Len(returned) = 1
    /\ Cardinality({m \in Markets : answers[m].details = "rejected"}) = 1
    /\ Cardinality({m \in Markets : /\ answers[m].isValid = "true"
                                     /\ answers[m].isExpired = "false"}) = 2

\* C4: the failure of any view call made for one market, isValidMarket and
\* isExpired included, never makes the call fail: the call throws only for
\* a failure before the loop.
C4_PerMarketFailureIsolated ==
    (Discovering /\ outcome = "threw") =>
        thrownBy \notin ({"isValidMarket", "isExpired"} \cup DetailReads)

\* C5: when the block number read, the block read (failed, or no data) or
\* the event query fails, the call throws, resolves with no list at all,
\* and no per-market call has been made.
C5_PreludeFailureFatal ==
    (Discovering /\ preludeFailure # "none") =>
        /\ outcome = "threw"
        /\ thrownBy = preludeFailure
        /\ returned = NoResult
        /\ perMarketCalls = 0

\* C5 witness: the event query failed after the block was read, the head
\* having advanced in between.
C5_Witness ==
    /\ Discovering
    /\ preludeFailure = "queryFilter"
    /\ outcome = "threw"
    /\ head > currentBlock

\* C6: every value of a returned record is the value the chain had at the
\* block whose number and timestamp the record carries: the LP supply of a
\* discovered market, the state tuple and the exchange rate of a detailed one.
C6_PointInTimeSnapshot ==
    outcome = "returned" =>
        IF Discovering
        THEN \A i \in 1..Len(returned) :
                 /\ returned[i].timestamp = TimestampOf(returned[i].blockNumber)
                 /\ returned[i].totalLpSupply =
                        ToDecimalString(LpSupplyAt(returned[i].address,
                                                   returned[i].blockNumber))
        ELSE /\ returned.timestamp = TimestampOf(returned.blockNumber)
             /\ returned.state =
                    StateDetails(StateAt(returned.address, returned.blockNumber))
             /\ returned.syExchangeRate =
                    ToDecimalString(ExchangeRateAt(returned.address,
                                                   returned.blockNumber))

(***************************************************************************)
(* Properties of main(), under SpecMain.                                   *)
(***************************************************************************)
Ascending(arr) ==
    \A i \in 1..(Len(arr) - 1) : arr[i].expiry <= arr[i + 1].expiry

Occurrences(arr, x) == Cardinality({i \in 1..Len(arr) : arr[i] = x})

IsPermutation(a, b) ==
    /\ Len(a) = Len(b)
    /\ \A i \in 1..Len(a) : Occurrences(a, a[i]) = Occurrences(b, a[i])

\* C7: once sort() has run, the array each main() prints and saves is in
\* ascending expiry order and is a permutation of the records selected before
\* the sort; what is saved, and what the single-factory scripts print, is
\* that array; market-interactions prints it factory by factory, each group
\* in ascending expiry order.
C7_SortedPermutation ==
    selected # NotYet =>
        /\ Ascending(markets)
        /\ IsPermutation(markets, selected)
        /\ saved # NotYet => Addresses(saved) = Addresses(markets)
        /\ script # "market-interactions" => displayed = markets
        /\ script = "market-interactions" =>
               /\ IsPermutation(displayed, markets)
               /\ \A version \in {"V3", "V4"} :
                      Ascending(SelectSeq(displayed,
                                          LAMBDA info : info.factory = version))

\* C7 witness: a saved array of two records that the sort had to reorder.
C7_Witness ==
    /\ saved # NotYet
    /\ Len(saved) = 2
    /\ markets # selected
    /\ markets[1].expiry < markets[2].expiry

(***************************************************************************)
(* Properties of isStablecoinMarket, under SpecClassifier.                 *)
(***************************************************************************)
\* The identifier list as the documentation gives it.
ListedIdentifiers ==
    { <<"U", "S", "D">>, <<"U", "S", "D", "C">>, <<"U", "S", "D", "T">>,
      <<"D", "A", "I">>, <<"U", "S", "D", "E">>, <<"U", "S", "D", "S">>,
      <<"s", "U", "S", "D">>, <<"U", "S", "U", "A", "L">>,
      <<"c", "r", "v", "U", "S", "D">> }

\* Some symbol of info contains some listed identifier, letter case apart.
ContainsIdentifier(info) ==
    \E symbol \in {info.sySymbol, info.ptSymbol, info.ytSymbol} :
        \E identifier \in ListedIdentifiers :
            Includes(ToLowerCase(symbol), ToLowerCase(identifier))

SameLetters(a, b) ==
    /\ ToLowerCase(a.sySymbol) = ToLowerCase(b.sySymbol)
    /\ ToLowerCase(a.ptSymbol) = ToLowerCase(b.ptSymbol)
    /\ ToLowerCase(a.ytSymbol) = ToLowerCase(b.ytSymbol)

\* C8: isStablecoinMarket(info) is true exactly when one of info's SY, PT or
\* YT symbols contains, letter case apart, one of the listed identifiers,
\* sUSD and crvUSD among them.
C8_TrueIffContainsIdentifier ==
    \A i \in 1..Len(classified) :
        classified[i].result = ContainsIdentifier(classified[i].market)

\* C8 witness: a record classified as a stablecoin market whose only match is
\* a symbol spelled "susd" in lower case.
C8_Witness ==
    \E i \in 1..Len(classified) :
        /\ classified[i].market.sySymbol = <<"s", "u", "s", "d">>
        /\ classified[i].market.ptSymbol = Eth
        /\ classified[i].result

\* C9: two records whose symbols differ only in the case of their letters
\* get the same answer from isStablecoinMarket.
C9_CaseInsensitive ==
    \A i, j \in 1..Len(classified) :
        SameLetters(classified[i].market, classified[j].market)
            => classified[i].result = classified[j].result

\* C9 witness: "USDC" and "usdc" were both classified, as stablecoin markets.
C9_Witness ==
    /\ Len(classified) = 2
    /\ classified[1].market.sySymbol = <<"U", "S", "D", "C">>
    /\ classified[2].market.sySymbol = <<"u", "s", "d", "c">>
    /\ classified[1].result
    /\ classified[2].result

(***************************************************************************)
(* Properties of the formatMarketData helpers, under SpecMetrics.          *)
(***************************************************************************)
\* The number of hundredths a text such as "-12.34%" stands for.
RECURSIVE DigitsValue(_)
DigitsValue(text) ==
    IF text = <<>> THEN 0
    ELSE 10 * DigitsValue(SubSeq(text, 1, Len(text) - 1))
         + DigitValue(text[Len(text)])

IsPercentText(text) ==
    LET body == IF text # <<>> /\ Head(text) = "-" THEN Tail(text) ELSE text
        n == Len(body)
    IN /\ n >= 5
       /\ body[n] = "%"
       /\ body[n - 3] = "."
       /\ \A i \in (1..(n - 4)) \cup {n - 2, n - 1} :
              \E d \in 1..Len(Digits) : Digits[d] = body[i]

Hundredths(text) ==
    LET negative == Head(text) = "-"
        body == IF negative THEN Tail(text) ELSE text
        n == Len(body)
        magnitude == DigitsValue(SubSeq(body, 1, n - 4)
                                 \o SubSeq(body, n - 2, n - 1))
    IN IF negative THEN 0 - magnitude ELSE magnitude

\* C10: for a totalSy of 0 calculateUtilization returns "0.00%" whatever
\* totalPt is, it never divides by zero, and for any other totalSy it returns
\* totalPt / totalSy as a percentage with two decimals, off by no more than
\* half a hundredth of a percent.
C10_UtilizationGuarded ==
    metric = "calculateUtilization" =>
        /\ \A i \in 1..Len(divisions) : divisions[i].divisor.num # 0
        /\ \A totalPt, totalSy \in Amounts :
               (/\ metricArgs.totalPt = ToDecimalString(totalPt)
                /\ metricArgs.totalSy = ToDecimalString(totalSy)) =>
                   IF totalSy = 0
                   THEN metricValue = <<"0", ".", "0", "0", "%">>
                   ELSE /\ IsPercentText(metricValue)
                        /\ 2 * Abs(Hundredths(metricValue) * totalSy
                                   - 100 * 100 * totalPt) <= Abs(totalSy)

\* C10 witness: calculateUtilization was called with a totalSy of 0 and a
\* totalPt that is not 0.
C10_Witness ==
    /\ metric = "calculateUtilization"
    /\ metricArgs.totalSy = <<"0">>
    /\ metricArgs.totalPt = <<"7">>
    /\ metricValue = <<"0", ".", "0", "0", "%">>

\* C11: calculateYtBalance(totalPt, totalSy) is the decimal string of
\* max(totalPt - totalSy, 0), digit for digit: never negative, 0 whenever
\* totalPt <= totalSy, and 1000 * 10^18 for totalSy = 0, totalPt = 1000 * 10^18.
C11_YtBalanceIsMaxOfDifference ==
    metric = "calculateYtBalance" =>
        /\ Head(metricValue) # "-"
        /\ \A unit \in Units : \A totalPt, totalSy \in TokenAmounts :
               (/\ metricArgs.totalPt = AmountString(totalPt, unit)
                /\ metricArgs.totalSy = AmountString(totalSy, unit)) =>
                   metricValue =
                       AmountString(IF totalPt - totalSy > 0
                                    THEN totalPt - totalSy ELSE 0, unit)

\* C11 witness: totalSy = 0 and totalPt = 1000 * 10^18 gave 1000 * 10^18.
C11_Witness ==
    /\ metric = "calculateYtBalance"
    /\ metricArgs.totalSy = <<"0">>
    /\ metricArgs.totalPt = AmountString(1000, EtherDecimals)
    /\ metricValue = AmountString(1000, EtherDecimals)
    /\ Len(metricValue) = 22

\* The quotient of amount * 10^exponent by 10^18, truncated towards 0, for
\* an amount below 10^9, as mantissa and exponent of ten.
TruncatedQuotient(amount, exponent) ==
    IF exponent >= 18 THEN <<amount, exponent - 18>>
    ELSE IF 18 - exponent > 9 THEN <<0, 0>>
    ELSE IF amount < 0
    THEN <<0 - ((0 - amount) \div Pow10(18 - exponent)), 0>>
    ELSE <<amount \div Pow10(18 - exponent), 0>>

\* C12: calculateTvl returns, written in ether, the integer
\* (totalSy + totalPt + ytBalance + totalLp) * syExchangeRate / 10^18 with
\* the quotient truncated, where ytBalance = max(totalPt - totalSy, 0); sum
\* and product are exact for balances of the size of 10^21.
C12_TvlExactAndTruncated ==
    metric = "calculateTvl" =>
        \A unit \in Units : \A totalSy, totalPt \in TvlAmounts :
        \A totalLp \in LpAmounts : \A rate \in ExchangeRates :
            (/\ metricArgs.totalSy = AmountString(totalSy, unit)
             /\ metricArgs.totalPt = AmountString(totalPt, unit)
             /\ metricArgs.totalLp = AmountString(totalLp, unit)
             /\ metricArgs.syExchangeRate = AmountString(rate[1], rate[2])) =>
                LET ytBalance == IF totalPt - totalSy > 0
                                 THEN totalPt - totalSy ELSE 0
                    sum == totalSy + totalPt + ytBalance + totalLp
                    tvl == TruncatedQuotient(sum * rate[1], unit + rate[2])
                IN metricValue = FormatEther(AmountString(tvl[1], tvl[2]))

\* C12 witness: a negative sum of -1 wei at a rate of 1.5, whose quotient
\* -1.5 is truncated to -1 wei.
C12_Witness ==
    /\ metric = "calculateTvl"
    /\ metricArgs.totalSy = <<"1">>
    /\ metricArgs.totalPt = <<"-", "2">>
    /\ metricArgs.totalLp = <<"0">>
    /\ metricArgs.syExchangeRate = AmountString(15, 17)
    /\ metricValue = [units |-> 0 - 1, decimals |-> 18]

NotAvailable == <<"N", "/", "A">>

\* A price text such as "$0.9512" or "$-0.0513": a dollar sign, a decimal
\* with four fraction digits.
IsPriceText(text) ==
    LET body == IF Len(text) > 1 /\ text[2] = "-"
                THEN SubSeq(text, 3, Len(text)) ELSE Tail(text)
        n == Len(body)
    IN /\ text[1] = "$"
       /\ n >= 6
       /\ body[n - 4] = "."
       /\ \A i \in (1..(n - 5)) \cup ((n - 3)..n) :
              \E d \in 1..Len(Digits) : Digits[d] = body[i]

\* The number of ten-thousandths a price text stands for.
PriceValue(text) ==
    LET negative == text[2] = "-"
        body == IF negative THEN SubSeq(text, 3, Len(text)) ELSE Tail(text)
        n == Len(body)
        magnitude == DigitsValue(SubSeq(body, 1, n - 5)
                                 \o SubSeq(body, n - 3, n))
    IN IF negative THEN 0 - magnitude ELSE magnitude

\* C13: the time to expiry used for pricing is max(expiry - timestamp, 0)
\* years, so that with a non-negative implied rate ptPrice and ytPrice lie
\* in [0, 1], and a snapshot taken at or after expiry has ptPrice 1 and
\* ytPrice 0.
C13_PricesWithinUnitInterval ==
    (metric = "calculateTokenPrices" /\ metricValue.pt # NotAvailable) =>
        /\ IsPriceText(metricValue.pt) /\ IsPriceText(metricValue.yt)
        /\ PriceValue(metricValue.pt) \in 0..10000
        /\ PriceValue(metricValue.yt) \in 0..10000
        /\ metricArgs.market.state.expiry <= metricArgs.market.timestamp =>
               /\ PriceValue(metricValue.pt) = 10000
               /\ PriceValue(metricValue.yt) = 0

\* C14: whenever the discount factor is a finite number, the ptPrice and
\* ytPrice of calculateTokenPrices add up to 1, within one unit of the last
\* printed decimal.
C14_PricesSumToOne ==
    (/\ metric = "calculateTokenPrices"
     /\ IsPriceText(metricValue.pt)
     /\ IsPriceText(metricValue.yt)) =>
        Abs(PriceValue(metricValue.pt) + PriceValue(metricValue.yt) - 10000)
            <= 1

\* C14 witness: a snapshot a year before expiry at a rate of 0.05 is priced
\* at 0.9512 and 0.0488.
C14_Witness ==
    /\ metric = "calculateTokenPrices"
    /\ metricArgs.lastLnImpliedRate = AmountString(5, 16)
    /\ metricValue.pt = <<"$", "0", ".", "9", "5", "1", "2">>
    /\ metricValue.yt = <<"$", "0", ".", "0", "4", "8", "8">>

\* C17: ptPrice and ytPrice are each a well-formed decimal or "N/A", never a
\* text built from NaN or Infinity.
C17_PricesDecimalOrNotAvailable ==
    metric = "calculateTokenPrices" =>
        /\ metricValue.pt = NotAvailable \/ IsPriceText(metricValue.pt)
        /\ metricValue.yt = NotAvailable \/ IsPriceText(metricValue.yt)

\* The sampled rates with exp(rate) - 1 in millionths.
KnownYields == {<<<<"0">>, 0>>, <<AmountString(5, 16), 51271>>,
                <<AmountString(25, 17), 11182494>>}

C16_YieldsNotAvailableWhenImplausible ==
    metric = "yieldMetrics" =>
        \A text \in {metricValue.impliedApy, metricValue.feeAdjustedApy,
                      metricValue.ytYieldRate} :
            \/ text = NotAvailable
            \/ /\ IsPercentText(text)
               /\ Hundredths(text) >= 0 - 100 * 100
               /\ Hundredths(text) <= 1000 * 100

Unknown == <<"U", "n", "k", "n", "o", "w", "n">>

\* C18: the reported maturityProgress is within [0%, 100%] for every
\* snapshot, one taken after expiry included.
C18_ProgressClamped ==
    (metric = "maturityProgress" /\ metricValue # Unknown) =>
        /\ Hundredths(metricValue) >= 0
        /\ Hundredths(metricValue) <= 100 * 100

\* C19: for one market, the maturityProgress of a later snapshot is not
\* below that of an earlier one, across expiry and in the branch where
\* expiry is not after creation as well.
C19_ProgressMonotone ==
    (metric = "maturityProgress" /\ metricArgs.earlier # <<>>) =>
        LET before == metricArgs.earlier[1].value
        IN IF before = Unknown \/ metricValue = Unknown
           THEN before = metricValue
           ELSE Hundredths(before) <= Hundredths(metricValue)

\* C19 witness: the progress grew between a snapshot before expiry and one
\* after it.
C19_Witness ==
    /\ metric = "maturityProgress"
    /\ metricArgs.earlier # <<>>
    /\ metricArgs.earlier[1].market.timestamp < metricArgs.market.state.expiry
    /\ metricArgs.market.timestamp > metricArgs.market.state.expiry
    /\ metricValue # Unknown
    /\ Hundredths(metricArgs.earlier[1].value) < Hundredths(metricValue)

\* C20: for a snapshot taken between creation and expiry, maturityProgress
\* is (timestamp - creationTimestamp) / (expiry - creationTimestamp) as a
\* percentage with two decimals, every quantity a unix timestamp.
C20_ProgressFromTimestamps ==
    LET market == metricArgs.market
    IN (/\ metric = "maturityProgress"
        /\ market.creationTimestamp # NoBlock
        /\ market.creationTimestamp <= market.timestamp
        /\ market.timestamp <= market.state.expiry
        /\ market.creationTimestamp < market.state.expiry) =>
           /\ metricValue # Unknown
           /\ 2 * Abs(Hundredths(metricValue)
                         * (market.state.expiry - market.creationTimestamp)
                      - 100 * 100
                         * (market.timestamp - market.creationTimestamp))
                  <= market.state.expiry - market.creationTimestamp

\* C21: maturityProgress is "Unknown" whenever the creation timestamp of the
\* market is unavailable, and "100.00%" whenever expiry <= creation
\* timestamp; no ratio is computed in either case.
C21_UnknownOrCompleteWithoutRatio ==
    LET market == metricArgs.market
    IN metric = "maturityProgress" =>
          /\ market.creationTimestamp = NoBlock => metricValue = Unknown
          /\ (/\ market.creationTimestamp # NoBlock
              /\ market.state.expiry <= market.creationTimestamp) =>
                 metricValue = <<"1", "0", "0", ".", "0", "0", "%">>

\* The percentage a breakdown entry "SYMBOL: 12.34%" ends with.
EntryPercent(entry, symbol) == SubSeq(entry, Len(symbol) + 3, Len(entry))

\* C22: calculateRewardApr returns "N/A" when there is no reward rate; a
\* result other than "N/A" has one breakdown entry per reward token, and its
\* total and every breakdown entry lie within 0 to 1000%.
C22_RewardAprWithinSanityBound ==
    metric = "calculateRewardApr" =>
        /\ Len(metricArgs.rates) = 0 =>
               metricValue = [typeof |-> "string", value |-> NotAvailable]
        /\ metricValue.typeof = "string" => metricValue.value = NotAvailable
        /\ metricValue.typeof = "object" =>
               LET result == metricValue.value
                   symbols == metricArgs.symbols
               IN /\ Hundredths(result.total) \in 0..(1000 * 100)
                  /\ Len(result.breakdown) = Len(symbols)
                  /\ \A i \in 1..Len(symbols) :
                         Hundredths(EntryPercent(result.breakdown[i],
                                                 symbols[i]))
                             \in 0..(1000 * 100)

\* The reads of getMarketDetails the record cannot be built without.
CoreReads == {"getLatestBlock", "missingBlockData", "readTokens", "readState",
              "sySymbol", "ptSymbol", "ytSymbol", "exchangeRate",
              "pyIndexStored"}

\* C23: getMarketDetails throws on the failure of a core read only, never on
\* the failure of an optional read, the market's reward-token list included;
\* and a record it returns has its core fields filled.
C23_OptionalReadsIsolated ==
    fn = "getMarketDetails" =>
        /\ outcome = "threw" => thrownBy \in CoreReads
        /\ outcome = "returned" =>
               /\ returned.address = marketAddress
               /\ returned.syAddress = TokensOf(marketAddress).SY
               /\ returned.ptAddress = TokensOf(marketAddress).PT
               /\ returned.ytAddress = TokensOf(marketAddress).YT
               /\ returned.sySymbol = SymbolOf("SY", marketAddress)
               /\ returned.ptSymbol = SymbolOf("PT", marketAddress)
               /\ returned.ytSymbol = SymbolOf("YT", marketAddress)
               /\ \E b \in Blocks :
                      returned.state = StateDetails(StateAt(marketAddress, b))
               /\ \E b \in Blocks :
                      returned.syExchangeRate =
                          ToDecimalString(ExchangeRateAt(marketAddress, b))
               /\ returned.blockNumber \in Blocks
               /\ returned.timestamp = TimestampOf(returned.blockNumber)

\* C25: in every record getMarketDetails returns, syRewards.tokens, .rates
\* and .symbols have the same length and entry i of each describes the same
\* reward token, whichever of the SY reward reads fail; lists left by a
\* failed read are therefore all empty.
C25_SyRewardListsAligned ==
    (fn = "getMarketDetails" /\ outcome = "returned") =>
        LET syRewards == returned.syRewards
        IN /\ Len(syRewards.rates) = Len(syRewards.tokens)
           /\ Len(syRewards.symbols) = Len(syRewards.tokens)
           /\ \A i \in 1..Len(syRewards.symbols) :
                  syRewards.symbols[i] = RewardSymbolOf(syRewards.tokens[i])

RECURSIVE Fulfilled(_, _)
\* The listed markets whose request was answered with data, in list order.
Fulfilled(listed, settled) ==
    IF listed = <<>> THEN <<>>
    ELSE LET rest == Fulfilled(Tail(listed), Tail(settled))
         IN IF Head(settled) = Null THEN rest
            ELSE <<Head(listed).address>> \o rest

C26_LiquidityNotAboveTvl ==
    metric = "liquidity" =>
        \A unit \in Units : \A totalSy, totalPt \in TvlAmounts :
        \A totalLp \in LpAmounts : \A rate \in ExchangeRates :
            (/\ totalSy >= 0 /\ totalPt >= 0
             /\ metricArgs.state.totalSy = AmountString(totalSy, unit)
             /\ metricArgs.state.totalPt = AmountString(totalPt, unit)
             /\ metricArgs.state.totalLp = AmountString(totalLp, unit)
             /\ metricArgs.syExchangeRate = AmountString(rate[1], rate[2])) =>
                LET ytBalance == IF totalPt - totalSy > 0
                                 THEN totalPt - totalSy ELSE 0
                    pool == TruncatedQuotient((totalSy + totalPt) * rate[1],
                                              unit + rate[2])
                    total == TruncatedQuotient(
                                 (totalSy + totalPt + ytBalance + totalLp)
                                     * rate[1], unit + rate[2])
                IN /\ metricValue.liquidity
                          = FormatEther(AmountString(pool[1], pool[2]))
                   /\ metricValue.tvl
                          = FormatEther(AmountString(total[1], total[2]))
                   /\ pool[2] = total[2]
                   /\ pool[1] <= total[1]
                   /\ (metricValue.liquidity = metricValue.tvl)
                          <=> (pool[1] = total[1])

\* C26 witness: a snapshot whose YT balance and LP supply add to the
\* quotient: 1 SY, 7 PT and 3 LP at a rate of 1.05 give a liquidity of 8.4
\* below a TVL of 17.85.
C26_Witness ==
    /\ metric = "liquidity"
    /\ metricArgs.state.totalSy = AmountString(1, EtherDecimals)
    /\ metricArgs.state.totalPt = AmountString(7, EtherDecimals)
    /\ metricArgs.state.totalLp = AmountString(3, EtherDecimals)
    /\ metricArgs.syExchangeRate = AmountString(105, 16)
    /\ metricValue.liquidity = FormatEther(AmountString(84, EtherDecimals - 1))
    /\ metricValue.tvl = FormatEther(AmountString(1785, EtherDecimals - 2))

\* C27: the answer latestRoundData returns is 1e18 minus
\* timeLeft * baseDiscountPerYear / 31,536,000 rounded down, with timeLeft =
\* max(maturity - block.timestamp, 0); it is not below the answer returned at
\* an earlier timestamp, and it is exactly 1e18 at and after maturity.
C27_AnswerRisesToPar ==
    (oracle # NotDeployed /\ roundData # NoRoundData /\ ~roundData.reverted) =>
        LET timeLeft == IF oracle.maturity - roundData.timestamp > 0
                        THEN oracle.maturity - roundData.timestamp ELSE 0
            discount == UintSub(UintE(1, 18), roundData.answer)
            remainder == UintSub(UintMul(oracle.baseDiscountPerYear, timeLeft),
                                 UintMul(discount, SECONDS_PER_YEAR))
        IN /\ ~UintLess(UintE(1, 18), roundData.answer)
           /\ ~UintLess(UintMul(oracle.baseDiscountPerYear, timeLeft),
                        UintMul(discount, SECONDS_PER_YEAR))
           /\ UintLess(remainder, Uint(SECONDS_PER_YEAR))
           /\ roundData.timestamp >= oracle.maturity =>
                  roundData.answer = UintE(1, 18)
           /\ (previousRoundData # NoRoundData /\ ~previousRoundData.reverted)
                  => /\ previousRoundData.timestamp <= roundData.timestamp
                     /\ ~UintLess(roundData.answer, previousRoundData.answer)

\* C27 witness: at 5% a year, half a year before maturity the answer is
\* 0.975e18, and a later call at maturity answers 1e18.
C27_Witness ==
    /\ oracle = [maturity |-> OracleStart + 2 * Quarter,
                 baseDiscountPerYear |-> UintE(5, 16)]
    /\ previousRoundData = [timestamp |-> OracleStart, reverted |-> FALSE,
                            answer |-> UintE(975, 15)]
    /\ roundData = [timestamp |-> oracle.maturity, reverted |-> FALSE,
                    answer |-> UintE(1, 18)]

\* C28: for every deployed oracle and every block.timestamp
\* latestRoundData does not revert and its answer lies in [0, 1e18], also
\* when maturity is more than a year away.
C28_NeverRevertsWithinUnit ==
    (oracle # NotDeployed /\ roundData # NoRoundData) =>
        /\ ~roundData.reverted
        /\ ~UintLess(UintE(1, 18), roundData.answer)

\* The market an address names: its lower-case text without a leading "1-".
Canonical(address) ==
    LET lower == ToLowerCase(address)
    IN IF Len(lower) >= 2 /\ lower[1] = "1" /\ lower[2] = "-"
       THEN SubSeq(lower, 3, Len(lower)) ELSE lower

\* The market is listed in the other file.
Matched(market, others) ==
    \E k \in 1..Len(others) :
        Canonical(others[k].address) = Canonical(market.address)

\* C29: every on-chain market is counted in exactly one of inBoth and
\* onlyOnchain, every API market no on-chain address matches is in onlyApi,
\* and addresses that differ only in letter case or by a leading "1-" name
\* the same market.
C29_ComparisonPartitions ==
    comparisonData # NoComparison =>
        LET summary == comparisonData.summary
            lists == comparisonData.details
            wellFormed ==
                \A list \in {onchainData, apiData} : \A i \in 1..Len(list) :
                    Canonical(list[i].address) \in ComparedAddresses
        IN /\ wellFormed => ~comparisonData.threw
           /\ ~comparisonData.threw =>
                 /\ summary.totalOnchain = Len(onchainData)
                 /\ summary.inBoth + summary.onlyOnchain = summary.totalOnchain
                 /\ summary.inBoth =
                        Cardinality({i \in 1..Len(onchainData) :
                                        Matched(onchainData[i], apiData)})
                 /\ lists.marketsOnlyInOnchain =
                        SelectSeq(onchainData,
                                  LAMBDA m : ~Matched(m, apiData))
                 /\ summary.onlyOnchain = Len(lists.marketsOnlyInOnchain)
                 /\ lists.marketsOnlyInApi =
                        SelectSeq(apiData, LAMBDA m : ~Matched(m, onchainData))
                 /\ summary.onlyApi = Len(lists.marketsOnlyInApi)

\* C29 witness: a market spelt in upper case on chain and with the chain
\* prefix by the API is counted in both, next to one found on chain only.
C29_Witness ==
    /\ comparisonData # NoComparison
    /\ ~comparisonData.threw
    /\ Len(onchainData) = 2
    /\ Len(apiData) = 1
    /\ onchainData[1].address # ToLowerCase(onchainData[1].address)
    /\ apiData[1].address = <<"1", "-">> \o ToLowerCase(onchainData[1].address)
    /\ comparisonData.summary.inBoth = 1
    /\ comparisonData.summary.onlyOnchain = 1
    /\ comparisonData.summary.onlyApi = 0

\* The probes made so far ran through the indexes 0, 1, ... in order, and
\* all but the last one were answered.
ProbedInOrder ==
    /\ \A k \in 1..Len(probes) : probes[k].index = k - 1
    /\ \A k \in 1..(Len(probes) - 1) : probes[k].ended = "address"

\* C30: getNumberOfMarkets probes allMarkets(0), allMarkets(1), ... in
\* order; it goes on while the probes are answered and returns the index of
\* the first probe that fails, which it reaches in the end; the value
\* returned is the market count of the factory exactly when that probe was
\* the one out of range, and is below it after a failed read.
C30_ReturnsFirstFailingIndex ==
    /\ [](/\ ProbedInOrder
          /\ numMarkets = NoBlock =>
                 /\ marketIndex = Len(probes)
                 /\ \A k \in 1..Len(probes) : probes[k].ended = "address"
          /\ numMarkets # NoBlock =>
                 /\ probes # <<>>
                 /\ probes[Len(probes)].ended # "address"
                 /\ numMarkets = probes[Len(probes)].index
                 /\ numMarkets <= factoryMarkets
                 /\ probes[Len(probes)].ended = "out of range"
                        => numMarkets = factoryMarkets
                 /\ numMarkets = factoryMarkets
                        => probes[Len(probes)].index = factoryMarkets)
    /\ <>(numMarkets # NoBlock)

\* C30 witness: after two answered probes a read fails, and 2 is returned
\* for a factory holding more markets.
C30_Witness ==
    /\ numMarkets = 2
    /\ factoryMarkets > 2
    /\ Len(probes) = 3
    /\ probes[3] = [index |-> 2, ended |-> "read failed"]
====
